---- MODULE Spec2Model ----
(***************************************************************************)
(* MuseumHub: the booking endpoints and the chatbot booking dialogue of    *)
(* app.py, the channel / session-manager core (channels/*.py,              *)
(* session_manager.py) and the token checks (models.py, api_routes.py).    *)
(*                                                                         *)
(* Python values: None is the empty sequence <<>>, any other value x is    *)
(* <<x>>, so that a nullable field has one type.  A dict is a function     *)
(* whose DOMAIN is its key set.                                            *)
(***************************************************************************)
EXTENDS Integers, Sequences, FiniteSets, TLC

VARIABLES
    bookings,    \* table "bookings": sequence of rows, in insertion order
    session,     \* Flask cookie session of each logged-in user (a dict)
    pending,     \* per user: the booking a request has checked and not yet inserted
    resp,        \* the response of the last completed booking/chatbot request
    channels,    \* table "channels": sequence of channel names, row id = index
    sessions,    \* table "conversation_sessions": sequence of rows
    messages,    \* table "conversation_messages": sequence of rows
    nextId,      \* next primary key / uuid of a conversation session
    ret,         \* what the last session / channel operation returned
    xferred,     \* ids of the sessions a transfer_session call has completed on
    tokens,      \* table "authentication_tokens": sequence of rows
    now,         \* datetime.utcnow(), in days
    auth,        \* the outcome of the last token check
    calls        \* per worker: the channel call it is in the middle of, with its locals

bookingVars == <<bookings, session, pending, resp>>
nonBookingVars == <<channels, sessions, messages, nextId, ret, xferred, tokens, now, auth,
                    calls>>
nonSessionVars == <<bookings, session, pending, resp, tokens, now, auth, calls>>
sessionVars == <<channels, sessions, messages, nextId, ret, xferred>>
tokenVars == <<tokens, auth>>
vars == <<bookings, session, pending, resp, channels, sessions, messages,
          nextId, ret, xferred, tokens, now, auth, calls>>

----------------------------------------------------------------------------
(* Python values *)

None == <<>>
Some(x) == <<x>>
Val(o) == o[1]

\* dict.get(k): None for a missing key
Get(d, k) == IF k \in DOMAIN d THEN d[k] ELSE None

\* truthiness of an optional string / an optional int
TruthyStr(o) == o # None /\ Val(o) # ""
TruthyInt(o) == o # None /\ Val(o) # 0

\* a or b, for optional strings / optional ints
OrStr(a, b) == IF TruthyStr(a) THEN a ELSE b
OrInt(a, b) == IF TruthyInt(a) THEN a ELSE b

\* d.update(e)
DictUpdate(d, e) ==
    [k \in (DOMAIN d) \cup (DOMAIN e) |-> IF k \in DOMAIN e THEN e[k] ELSE d[k]]

\* d with d[k] = v
DictSet(d, k, v) ==
    [j \in (DOMAIN d) \cup {k} |-> IF j = k THEN v ELSE d[j]]

\* d.pop(k, None)
DictKeep(d, k) == d
DictPop(d, k) == [j \in (DOMAIN d) \ {k} |-> d[j]]

EmptyDict == [k \in {} |-> None]

Max(a, b) == IF a >= b THEN a ELSE b

----------------------------------------------------------------------------
(* Museum booking config (app.py) *)

TIME_SLOTS == <<"9AM-10AM", "10AM-11AM", "11AM-12PM", "1PM-2PM", "2PM-3PM", "3PM-4PM">>

TimeSlotSet == {TIME_SLOTS[i] : i \in DOMAIN TIME_SLOTS}

SLOT_CAPACITY ==
    [s \in TimeSlotSet |->
        CASE s = "9AM-10AM" -> 20
          [] s = "10AM-11AM" -> 25
          [] s = "11AM-12PM" -> 25
          [] s = "1PM-2PM" -> 30
          [] s = "2PM-3PM" -> 30
          [] s = "3PM-4PM" -> 20]

\* SLOT_CAPACITY.get(time_slot, 20)
CapacityOf(slot) == IF slot \in DOMAIN SLOT_CAPACITY THEN SLOT_CAPACITY[slot] ELSE 20

\* date.today() and date.today() + timedelta(days=1), as ISO dates
TodayDate == "2024-12-19"
TomorrowDate == "2024-12-20"

\* the strings datetime.strptime(s, '%Y-%m-%d') parses, with the date each gives
IsoDates == {"2024-12-19", "2024-12-20"}
\* the strings only '%Y/%m/%d' parses, with the date each gives
SlashDates == {"2024/12/20"}
SlashToIso(s) == "2024-12-20"

\* today / tomorrow / strptime(s, '%Y-%m-%d'); None stands for the ValueError
ParseDate(s) ==
    IF s = "today" THEN Some(TodayDate)
    ELSE IF s = "tomorrow" THEN Some(TomorrowDate)
    ELSE IF s \in IsoDates THEN Some(s)
    ELSE None

\* the chatbot's book_ticket tries four formats; None stands for "no format fits"
ParseDateFormats(s) ==
    IF ParseDate(s) # None THEN ParseDate(s)
    ELSE IF s \in SlashDates THEN Some(SlashToIso(s))
    ELSE None

\* coalesce(sum(Booking.visitors), 0) filtered by date and time_slot
RECURSIVE SumVisitors(_, _, _)
SumVisitors(rows, d, slot) ==
    IF rows = <<>> THEN 0
    ELSE (IF Head(rows).date = d /\ Head(rows).time_slot = slot
          THEN Head(rows).visitors ELSE 0)
         + SumVisitors(Tail(rows), d, slot)

BookedSum(d, slot) == SumVisitors(bookings, d, slot)

\* the capacity test every booking path applies: booked_sum + visitors > capacity
OverCapacityLax(booked_sum, visitors, capacity) == booked_sum > capacity
OverCapacity(booked_sum, visitors, capacity) == booked_sum + visitors > capacity

\* max(0, capacity - booked_sum)
RemainingSigned(booked_sum, capacity) == capacity - booked_sum
Remaining(booked_sum, capacity) == Max(0, capacity - booked_sum)

----------------------------------------------------------------------------
(* The chatbot booking dialogue and the booking endpoints (app.py) *)

\* the logged-in users (every handler below is behind a login check)
Users == {1, 2}

BookingKey == "chatbot_booking"

HasBooking(u) == BookingKey \in DOMAIN session[u]
\* session.get('chatbot_booking', {})
BookingInfo(u) == IF HasBooking(u) THEN session[u][BookingKey] ELSE EmptyDict

\* the state start_booking stores
InitialBooking ==
    [k \in {"step", "date", "time_slot", "visitors"} |->
        IF k = "step" THEN Some("select_date") ELSE None]

\* the state book_from_availability stores
PreselectedBooking(date_str, time_slot) ==
    [k \in {"step", "date", "time_slot", "visitors"} |->
        CASE k = "step" -> Some("select_visitors")
          [] k = "date" -> date_str
          [] k = "time_slot" -> time_slot
          [] k = "visitors" -> None]

\* one entry of slots_data
SlotInfoStrict(d, slot) ==
    [time_slot |-> slot,
     remaining |-> Remaining(BookedSum(d, slot), CapacityOf(slot)),
     is_full   |-> BookedSum(d, slot) > CapacityOf(slot),
     capacity  |-> CapacityOf(slot)]

SlotInfo(d, slot) ==
    [time_slot |-> slot,
     remaining |-> Remaining(BookedSum(d, slot), CapacityOf(slot)),
     is_full   |-> BookedSum(d, slot) >= CapacityOf(slot),
     capacity  |-> CapacityOf(slot)]

SlotsData(d) == [i \in DOMAIN TIME_SLOTS |-> SlotInfo(d, TIME_SLOTS[i])]

IsOffered(info) == ~info.is_full
\* the values of the slot buttons: the slots of slots_data that are not full
SlotButtons(d) ==
    LET open == SelectSeq(SlotsData(d), IsOffered)
    IN  [i \in DOMAIN open |-> open[i].time_slot]

\* which branch of the chatbot handler a request takes: start_booking first,
\* then the if/elif chain on step and action, then the second chain
Dispatch(action, step) ==
    IF action = Some("start_booking") THEN "start_booking"
    ELSE IF step = Some("select_date") \/ action = Some("select_date") THEN "select_date"
    ELSE IF step = Some("select_time") \/ action = Some("select_time") THEN "select_time"
    ELSE IF step = Some("select_visitors") \/ action = Some("select_visitors")
         THEN "select_visitors"
    ELSE IF action = Some("confirm_and_pay") THEN "confirm_and_pay"
    ELSE IF action = Some("book_from_availability") THEN "book_from_availability"
    ELSE IF action = Some("book_ticket") THEN "book_ticket"
    ELSE "other"

NoButtons == <<>>

Response(u, op, outcome, step, available, buttons) ==
    [user |-> u, op |-> op, outcome |-> outcome, step |-> step,
     available |-> available, buttons |-> buttons]

\* the answer to a request refused for capacity; date and time_slot record the
\* slot the request asked for
Rejected(u, op, outcome, step, d, time_slot, available) ==
    [user |-> u, op |-> op, outcome |-> outcome, step |-> step,
     available |-> Some(available), buttons |-> NoButtons,
     date |-> d, time_slot |-> time_slot]

SetBookingGlobal(u, b) == [w \in Users |-> DictSet(session[w], BookingKey, b)]
SetBooking(u, b) == [session EXCEPT ![u] = DictSet(session[u], BookingKey, b)]

\* the model holds at most this many bookings, those being inserted included
MaxBookings == 2
RoomForBooking ==
    Len(bookings) + Cardinality({w \in Users : pending[w] # None}) < MaxBookings

(* the requests a client sends *)
ActionInputs == {Some("start_booking"), Some("select_date"), Some("select_time"),
                 Some("select_visitors"), Some("confirm_and_pay"),
                 Some("book_from_availability"), Some("book_ticket")}
StepInputs == {None, Some("select_date"), Some("select_time"), Some("select_visitors")}
\* the branches of the handler that some request reaches
Branches == {Dispatch(action, step) : action \in ActionInputs, step \in StepInputs}
ChatDateInputs == {None, Some("tomorrow"), Some("garbage")}
ApiDateInputs == {None, Some("2024-12-20"), Some("today")}
SlotInputs == {None, Some("9AM-10AM"), Some("lunch")}
ChatVisitorInputs == {None, Some(0), Some(10), Some(11)}
ApiVisitorInputs == {11}
\* the date, time_slot and visitors a confirm_and_pay request may carry itself
ConfirmDateInputs == {None, Some("tomorrow")}
ConfirmSlotInputs == {None, Some("9AM-10AM")}
ConfirmVisitorInputs == {None, Some(11)}

\* booking_data of a request: absent, the state the last response carried (the
\* page echoes it), or a payload the client made up
ForgedBookingData ==
    [k \in {"step", "date", "time_slot", "visitors"} |->
        CASE k = "step" -> Some("select_date")
          [] k = "date" -> Some("tomorrow")
          [] k = "time_slot" -> Some("9AM-10AM")
          [] k = "visitors" -> Some(11)]
BookingDataInputs(u) == {EmptyDict, BookingInfo(u), ForgedBookingData}

\* action == 'start_booking'  (app.py 608-639)
ChatStartBooking(u) ==
    /\ UNCHANGED nonBookingVars
    /\ "start_booking" \in Branches
    /\ session' = SetBooking(u, InitialBooking)
    /\ resp' = Response(u, "start_booking", "ok", Some("select_date"), None, NoButtons)
    /\ UNCHANGED <<bookings, pending>>

\* step == 'select_date' or action == 'select_date'  (app.py 642-707)
ChatSelectDate(u) ==
    /\ UNCHANGED nonBookingVars
    /\ "select_date" \in Branches
    /\ \E date \in ChatDateInputs, booking_data \in BookingDataInputs(u) :
       /\ LET selected_date == OrStr(date, Get(booking_data, "date"))
              stored == DictSet(DictSet(BookingInfo(u), "date", selected_date),
                                "step", Some("select_time"))
              target_date == IF ParseDate(Val(selected_date)) # None
                             THEN Val(ParseDate(Val(selected_date)))
                             ELSE TodayDate
          IN  IF ~TruthyStr(selected_date)
              THEN /\ resp' = Response(u, "select_date", "please_select", None, None, NoButtons)
                   /\ UNCHANGED session
              ELSE /\ session' = SetBooking(u, stored)
                   /\ resp' = IF SlotButtons(target_date) = <<>>
                              THEN Response(u, "select_date", "all_full",
                                            Some("select_date"), None, NoButtons)
                              ELSE Response(u, "select_date", "ok", Some("select_time"),
                                            None, SlotButtons(target_date))
       /\ UNCHANGED <<bookings, pending>>

\* step == 'select_time' or action == 'select_time'  (app.py 709-729)
ChatSelectTime(u) ==
    /\ UNCHANGED nonBookingVars
    /\ "select_time" \in Branches
    /\ \E time_slot \in SlotInputs, booking_data \in BookingDataInputs(u) :
       /\ LET selected_slot == OrStr(time_slot, Get(booking_data, "time_slot"))
              stored == DictSet(DictSet(BookingInfo(u), "time_slot", selected_slot),
                                "step", Some("select_visitors"))
          IN  IF ~TruthyStr(selected_slot)
              THEN /\ resp' = Response(u, "select_time", "please_select", None, None, NoButtons)
                   /\ UNCHANGED session
              ELSE IF ~HasBooking(u)
              THEN \* session['chatbot_booking'] raises KeyError: a 500 response
                   /\ resp' = Response(u, "select_time", "error500", None, None, NoButtons)
                   /\ UNCHANGED session
              ELSE /\ session' = SetBooking(u, stored)
                   /\ resp' = Response(u, "select_time", "ok", Some("select_visitors"),
                                       None, NoButtons)
       /\ UNCHANGED <<bookings, pending>>

\* step == 'select_visitors' or action == 'select_visitors'  (app.py 731-766)
ChatSelectVisitors(u) ==
    /\ UNCHANGED nonBookingVars
    /\ "select_visitors" \in Branches
    /\ \E v \in ChatVisitorInputs, booking_data \in BookingDataInputs(u) :
       /\ LET visitors == Val(OrInt(OrInt(v, Get(booking_data, "visitors")), Some(1)))
              stored == DictSet(DictSet(BookingInfo(u), "visitors", Some(visitors)),
                                "step", Some("confirm_booking"))
              \* requested: the 'visitors' value of the request
              Answer(outcome, step) ==
                  [user |-> u, op |-> "select_visitors", outcome |-> outcome,
                   step |-> step, available |-> None, buttons |-> NoButtons,
                   requested |-> v]
          IN  IF visitors < 1 \/ visitors > 10
              THEN /\ resp' = Answer("out_of_range", None)
                   /\ UNCHANGED session
              ELSE IF ~HasBooking(u)
              THEN \* session['chatbot_booking'] raises KeyError: a 500 response
                   /\ resp' = Answer("error500", None)
                   /\ UNCHANGED session
              ELSE /\ session' = SetBooking(u, stored)
                   /\ resp' = Answer("ok", Some("confirm_booking"))
       /\ UNCHANGED <<bookings, pending>>

\* action == 'book_from_availability'  (app.py 926-958)
ChatBookFromAvailability(u) ==
    /\ UNCHANGED nonBookingVars
    /\ "book_from_availability" \in Branches
    /\ \E date \in ChatDateInputs, time_slot \in SlotInputs :
       /\ session' = SetBooking(u, PreselectedBooking(date, time_slot))
       /\ resp' = Response(u, "book_from_availability", "ok", Some("select_visitors"),
                           None, NoButtons)
       /\ UNCHANGED <<bookings, pending>>

\* the booking a request has checked against the capacity and is about to insert
Checked(op, d, time_slot, visitors) ==
    Some([op |-> op, date |-> d, time_slot |-> time_slot, visitors |-> visitors])

\* action == 'confirm_and_pay', up to the capacity check  (app.py 768-844)
ChatConfirmAndPay(u) ==
    /\ UNCHANGED nonBookingVars
    /\ "confirm_and_pay" \in Branches
    /\ \E booking_data \in BookingDataInputs(u),
       date \in ConfirmDateInputs, slot \in ConfirmSlotInputs,
       v \in ConfirmVisitorInputs :
       /\ pending[u] = None
       /\ LET merged == IF booking_data # EmptyDict
                        THEN DictUpdate(BookingInfo(u), booking_data)
                        ELSE BookingInfo(u)
              session1 == IF booking_data # EmptyDict THEN SetBooking(u, merged) ELSE session
              date_str == OrStr(OrStr(Get(merged, "date"), Get(booking_data, "date")), date)
              time_slot == OrStr(OrStr(Get(merged, "time_slot"),
                                       Get(booking_data, "time_slot")), slot)
              visitors_value == OrInt(OrInt(Get(merged, "visitors"),
                                            Get(booking_data, "visitors")), v)
              visitors0 == IF visitors_value = None THEN 1 ELSE Val(visitors_value)
              incomplete == ~TruthyStr(date_str) \/ ~TruthyStr(time_slot)
              \* the second read of the session, taken when something is missing
              visitors == IF incomplete /\ merged # EmptyDict
                             /\ TruthyInt(Get(merged, "visitors"))
                          THEN Val(Get(merged, "visitors")) ELSE visitors0
              target_date == ParseDate(Val(date_str))
              booked_sum == BookedSum(Val(target_date), Val(time_slot))
              capacity == CapacityOf(Val(time_slot))
          IN  /\ session' = session1
              /\ IF incomplete
                 THEN /\ resp' = Response(u, "confirm_and_pay", "incomplete", None, None, NoButtons)
                      /\ UNCHANGED pending
                 ELSE IF target_date = None
                 THEN \* strptime raises inside the try: "Error creating booking"
                      /\ resp' = Response(u, "confirm_and_pay", "error", None, None, NoButtons)
                      /\ UNCHANGED pending
                 ELSE IF OverCapacity(booked_sum, visitors, capacity)
                 THEN /\ resp' = Rejected(u, "confirm_and_pay", "rejected", Some("select_time"),
                                          Val(target_date), Val(time_slot),
                                          Remaining(booked_sum, capacity))
                      /\ UNCHANGED pending
                 ELSE /\ RoomForBooking
                      /\ pending' = [pending EXCEPT ![u] =
                                        Checked("confirm_and_pay", Val(target_date),
                                                Val(time_slot), visitors)]
                      /\ UNCHANGED resp
       /\ UNCHANGED bookings

\* action == 'book_ticket' of the chatbot, up to the capacity check  (app.py 1039-1081)
ChatBookTicket(u) ==
    /\ UNCHANGED nonBookingVars
    /\ "book_ticket" \in Branches
    /\ \E date_str \in ChatDateInputs \cup {Some("2024/12/20")},
       time_slot \in SlotInputs, visitors \in ApiVisitorInputs :
       /\ pending[u] = None
       /\ LET target_date == ParseDateFormats(Val(date_str))
              booked_sum == BookedSum(Val(target_date), Val(time_slot))
              capacity == CapacityOf(Val(time_slot))
          IN  IF ~TruthyStr(date_str) \/ ~TruthyStr(time_slot)
              THEN /\ resp' = Response(u, "book_ticket", "incomplete", None, None, NoButtons)
                   /\ UNCHANGED pending
              ELSE IF target_date = None
              THEN /\ resp' = Response(u, "book_ticket", "invalid_date", None, None, NoButtons)
                   /\ UNCHANGED pending
              ELSE IF Val(time_slot) \notin TimeSlotSet
              THEN /\ resp' = Response(u, "book_ticket", "invalid_time_slot", None, None, NoButtons)
                   /\ UNCHANGED pending
              ELSE IF OverCapacity(booked_sum, visitors, capacity)
              THEN /\ resp' = Rejected(u, "book_ticket", "rejected", None,
                                       Val(target_date), Val(time_slot),
                                       Remaining(booked_sum, capacity))
                   /\ UNCHANGED pending
              ELSE /\ RoomForBooking
                   /\ pending' = [pending EXCEPT ![u] =
                                     Checked("book_ticket", Val(target_date),
                                             Val(time_slot), visitors)]
                   /\ UNCHANGED resp
       /\ UNCHANGED <<bookings, session>>

\* the checks /api/book and /book_ticket share: the date is strptime'd as
\* '%Y-%m-%d' only (today / tomorrow are not accepted here)
StrictDate(s) == IF s \in IsoDates THEN Some(s) ELSE None

DirectBooking(u, op) ==
    /\ UNCHANGED nonBookingVars
    /\ \E date_str \in ApiDateInputs, time_slot \in SlotInputs, visitors \in ApiVisitorInputs :
       /\ pending[u] = None
       /\ LET target_date == StrictDate(Val(date_str))
              booked_sum == BookedSum(Val(target_date), Val(time_slot))
              capacity == CapacityOf(Val(time_slot))
          IN  IF ~TruthyStr(date_str) \/ ~TruthyStr(time_slot)
              THEN /\ resp' = Response(u, op, "missing_date_or_slot", None, None, NoButtons)
                   /\ UNCHANGED pending
              ELSE IF target_date = None
              THEN /\ resp' = Response(u, op, "invalid_date_format", None, None, NoButtons)
                   /\ UNCHANGED pending
              ELSE IF Val(time_slot) \notin TimeSlotSet
              THEN /\ resp' = Response(u, op, "invalid_time_slot", None, None, NoButtons)
                   /\ UNCHANGED pending
              ELSE IF OverCapacity(booked_sum, visitors, capacity)
              THEN /\ resp' = Rejected(u, op, "rejected", None,
                                       Val(target_date), Val(time_slot),
                                       Remaining(booked_sum, capacity))
                   /\ UNCHANGED pending
              ELSE /\ RoomForBooking
                   /\ pending' = [pending EXCEPT ![u] =
                                     Checked(op, Val(target_date), Val(time_slot), visitors)]
                   /\ UNCHANGED resp
       /\ UNCHANGED <<bookings, session>>

\* POST /api/book, up to the capacity check  (app.py 268-295)
ApiBook(u) == DirectBooking(u, "api_book")

\* POST /book_ticket, up to the capacity check  (app.py 329-363)
BookTicketForm(u) == DirectBooking(u, "book_ticket_form")

\* the row Booking(user_id=..., date=..., time_slot=..., visitors=...)
BookingRow(u, p) ==
    [user_id |-> u, date |-> p.date, time_slot |-> p.time_slot, visitors |-> p.visitors]

\* db.session.add(booking); db.session.commit() and the rest of the handler:
\* confirm_and_pay then pops the dialogue state  (app.py 297-301, 366-374,
\* 846-861, 1084-1107)
InsertBooking(u) ==
    /\ UNCHANGED nonBookingVars
    /\ pending[u] # None
    /\ bookings' = Append(bookings, BookingRow(u, Val(pending[u])))
    /\ pending' = [pending EXCEPT ![u] = None]
    /\ session' = IF Val(pending[u]).op = "confirm_and_pay"
                  THEN [session EXCEPT ![u] = DictPop(session[u], BookingKey)]
                  ELSE session
    /\ resp' = Response(u, Val(pending[u]).op, "created", None, None, NoButtons)

\* POST /api/book for a group as large as the slot's capacity, handled without
\* another request in between  (app.py 268-301); the groups book the slots of
\* tomorrow in the configured order
ApiBookGroup(u) ==
    /\ UNCHANGED nonBookingVars
    /\ Len(bookings) < Len(TIME_SLOTS)
    /\ LET time_slot == TIME_SLOTS[Len(bookings) + 1]
           visitors == CapacityOf(time_slot)
           booked_sum == BookedSum(TomorrowDate, time_slot)
       IN  /\ ~OverCapacity(booked_sum, visitors, CapacityOf(time_slot))
           /\ bookings' = Append(bookings,
                  BookingRow(u, [date |-> TomorrowDate, time_slot |-> time_slot,
                                 visitors |-> visitors]))
           /\ resp' = Response(u, "api_book", "created", None, None, NoButtons)
           /\ UNCHANGED <<session, pending>>

\* POST /cancel_booking/<id>: deletes a booking of the user  (app.py 386-394)
CancelBooking(u) ==
    /\ UNCHANGED nonBookingVars
    /\ \E i \in DOMAIN bookings :
       /\ bookings[i].user_id = u
       /\ bookings' = [j \in 1..(Len(bookings) - 1) |->
                          IF j < i THEN bookings[j] ELSE bookings[j + 1]]
       /\ resp' = Response(u, "cancel_booking", "ok", None, None, NoButtons)
       /\ UNCHANGED <<session, pending>>

----------------------------------------------------------------------------
(* Channels and conversation sessions (channels/base.py, session_manager.py) *)

\* the model creates at most this many conversation sessions
MaxSessions == 2
\* the model stores at most this many conversation messages
MaxMessages == 2
\* the clock stops at this day
MaxNow == 1

\* the workers (threads or processes) that serve channel calls side by side
Workers == {1, 2}

\* a worker between calls; otherwise the call it is in with the values it holds
NoCall == [op |-> "none"]

\* the channel names SessionManager._get_channel knows
KnownChannels == {"website", "instagram", "voice"}

\* a context is a dict from keys to strings.  json.dumps writes every key as a
\* string: the int key 1 (written "int:1" here) becomes the key "1"
JsonKey(k) == IF k = "int:1" THEN "1" ELSE k

\* the JSON text of a dict: its members, each a <<key, value>> pair
JsonDumps(d) == {<<JsonKey(k), d[k]>> : k \in DOMAIN d}

\* json.loads: the dict of a JSON text, one entry per key of the text
JsonLoads(text) ==
    [j \in {member[1] : member \in text} |->
        (CHOOSE member \in text : member[1] = j)[2]]

\* a dict is falsy when it is empty, like None
TruthyDict(o) == o # None /\ Val(o) # EmptyDict

\* ConversationSession(context=context) followed by "if context: set_context"
StoredContext(context) == IF TruthyDict(context) THEN Some(JsonDumps(Val(context))) ELSE context

\* what the Text column "context" can store: NULL or a string.  create_session
\* leaves an empty dict in the attribute ("if context" is false), which the
\* driver cannot bind: the commit raises and no row is stored
BindsContext(context) == context = None \/ TruthyDict(context)

\* ConversationSession.get_context
GetContext(row) == IF row.context # None THEN JsonLoads(Val(row.context)) ELSE EmptyDict

\* BaseChannel._get_or_create_channel: the table after the lookup and the id found
HasChannel(name) == \E i \in DOMAIN channels : channels[i] = name
GetOrCreateChannel(name) == IF HasChannel(name) THEN channels ELSE Append(channels, name)
ChannelId(chans, name) == CHOOSE i \in DOMAIN chans : chans[i] = name

\* BaseChannel.create_session: the row it inserts
NewSession(id, user_id, channel_id, channel_user_id, context) ==
    [id |-> id, user_id |-> user_id, channel_id |-> channel_id,
     channel_user_id |-> channel_user_id, status |-> "active",
     context |-> StoredContext(context), updated_at |-> now, last_activity |-> now]

\* BaseChannel.get_session(channel_user_id=...): the rows the query may return.
\* order_by(last_activity.desc()).first() picks any row of the latest activity
ActiveMatchAnyStatus(row, channel_id, channel_user_id) ==
    /\ row.channel_id = channel_id
    /\ row.channel_user_id = channel_user_id
ActiveMatch(row, channel_id, channel_user_id) ==
    /\ row.channel_id = channel_id
    /\ row.channel_user_id = channel_user_id
    /\ row.status = "active"

SessionsByUserId(channel_id, channel_user_id) ==
    IF ~TruthyStr(channel_user_id) THEN {}
    ELSE LET found == {i \in DOMAIN sessions :
                          ActiveMatch(sessions[i], channel_id, channel_user_id)}
         IN  {i \in found : \A j \in found :
                               sessions[j].last_activity <= sessions[i].last_activity}

\* BaseChannel.get_session(session_id=...): the row with that id on this channel
SessionsBySessionId(channel_id, session_id) ==
    {i \in DOMAIN sessions :
        sessions[i].id = session_id /\ sessions[i].channel_id = channel_id}

RowOf(rows, id) == CHOOSE i \in DOMAIN rows : rows[i].id = id

\* what an operation returned, with the arguments of the call where noted
Returned(op, outcome, sid, src, count) ==
    [op |-> op, outcome |-> outcome, sid |-> sid, src |-> src, count |-> count,
     args |-> None]
WithArgs(args, returned) == [returned EXCEPT !.args = Some(args)]

\* BaseChannel.__init__ -> _get_or_create_channel served by two workers side by
\* side: first the lookup by name  (base.py 19)
ChannelLookup(w) ==
    /\ UNCHANGED <<bookings, session, pending, resp, tokens, now, auth>>
    /\ calls[w] = NoCall
    /\ \E channel_name \in KnownChannels :
          calls' = [calls EXCEPT ![w] =
                       [op |-> "get_or_create_channel", channel_name |-> channel_name,
                        channel |-> HasChannel(channel_name)]]
    /\ UNCHANGED sessionVars

\* ... then, if the lookup found nothing, the insert and its commit (base.py
\* 20-27).  Channel.name is unique (models.py 77): the commit of a name that
\* another worker stored meanwhile raises IntegrityError out of the constructor
ChannelCreate(w) ==
    /\ UNCHANGED <<bookings, session, pending, resp, tokens, now, auth>>
    /\ calls[w] # NoCall
    /\ calls[w].op = "get_or_create_channel"
    /\ LET channel_name == calls[w].channel_name
           Result(outcome) ==
               WithArgs(channel_name,
                        Returned("get_or_create_channel", outcome, None, Some(w), None))
       IN  IF calls[w].channel
           THEN /\ ret' = Result("found")
                /\ UNCHANGED channels
           ELSE IF HasChannel(channel_name)
           THEN /\ ret' = Result("IntegrityError")
                /\ UNCHANGED channels
           ELSE /\ ret' = Result("created")
                /\ channels' = Append(channels, channel_name)
    /\ calls' = [calls EXCEPT ![w] = NoCall]
    /\ UNCHANGED <<sessions, messages, nextId, xferred>>

(* what callers pass *)
ChannelInputs == {"website", "instagram", "sms"}
UserIdInputs == {None, Some(1)}
ChannelUserInputs == {None, Some("1")}
ContextInputs ==
    {None, Some(EmptyDict),
     Some([k \in {"step", "int:1"} |-> IF k = "step" THEN "select_visitors" ELSE "x"])}
DaysInputs == {0, 1}

CanCreate == nextId <= MaxSessions

\* SessionManager.get_or_create_session  (session_manager.py 36-58)
GetOrCreateSession ==
    /\ UNCHANGED nonSessionVars
    /\ \E channel_name \in ChannelInputs, user_id \in UserIdInputs,
       channel_user_id \in ChannelUserInputs, context \in ContextInputs :
       LET Result(outcome, sid) ==
               WithArgs(<<channel_name, channel_user_id>>,
                        Returned("get_or_create_session", outcome, sid, None, None))
       IN
       IF channel_name \notin KnownChannels
       THEN /\ ret' = Result("ValueError", None)
            /\ UNCHANGED <<channels, sessions, messages, nextId, xferred>>
       ELSE LET chans == GetOrCreateChannel(channel_name)
                cid == ChannelId(chans, channel_name)
                found == SessionsByUserId(cid, channel_user_id)
                \* context or {}
                ctx == IF TruthyDict(context) THEN context ELSE Some(EmptyDict)
            IN  /\ channels' = chans
                /\ UNCHANGED <<messages, xferred>>
                /\ IF \E i \in found : sessions[i].status = "active"
                   THEN \E i \in found :
                           /\ sessions[i].status = "active"
                           /\ ret' = Result("found", Some(sessions[i].id))
                           /\ UNCHANGED <<sessions, nextId>>
                   ELSE IF ~BindsContext(ctx)
                   THEN /\ ret' = Result("create_failed", None)
                        /\ UNCHANGED <<sessions, nextId>>
                   ELSE /\ CanCreate
                        /\ sessions' = Append(sessions,
                               NewSession(nextId, user_id, cid, channel_user_id, ctx))
                        /\ nextId' = nextId + 1
                        /\ ret' = Result("created", Some(nextId))

\* BaseChannel.get_session(channel_user_id=...) of a channel object  (base.py 47-60)
GetSession ==
    /\ UNCHANGED nonSessionVars
    /\ \E channel_name \in KnownChannels \cap ChannelInputs,
       channel_user_id \in ChannelUserInputs :
       LET chans == GetOrCreateChannel(channel_name)
           found == SessionsByUserId(ChannelId(chans, channel_name), channel_user_id)
           Result(outcome, sid) ==
               WithArgs(<<channel_name, channel_user_id>>,
                        Returned("get_session", outcome, sid, None, None))
       IN  /\ channels' = chans
           /\ IF found = {}
              THEN ret' = Result("none", None)
              ELSE \E i \in found : ret' = Result("found", Some(sessions[i].id))
           /\ UNCHANGED <<sessions, messages, nextId, xferred>>

\* SessionManager.close_session  (session_manager.py 103-107)
CloseSession ==
    /\ UNCHANGED nonSessionVars
    /\ \E i \in DOMAIN sessions :
       /\ sessions' = [sessions EXCEPT ![i].status = "closed", ![i].updated_at = now]
       /\ ret' = Returned("close_session", "ok", Some(sessions[i].id), None, None)
       /\ UNCHANGED <<channels, messages, nextId, xferred>>

\* BaseChannel.save_message: the message row, and the session row after the
\* activity bump (the UPDATE also fires updated_at's onupdate)
MessageRow(sid, direction, content) ==
    [session_id |-> sid, direction |-> direction, content |-> content, created_at |-> now]
Touched(row) == [row EXCEPT !.last_activity = now, !.updated_at = now]
BumpActivity(rows, i) == [rows EXCEPT ![i] = Touched(rows[i])]

CanSave(n) == Len(messages) + n <= MaxMessages

\* ConversationSession.set_context  (models.py 122-126)
SetContextAndReopen(row, context_dict) ==
    [row EXCEPT !.context = Some(JsonDumps(context_dict)),
                !.updated_at = now, !.last_activity = now, !.status = "active"]
SetContext(row, context_dict) ==
    [row EXCEPT !.context = Some(JsonDumps(context_dict)),
                !.updated_at = now, !.last_activity = now]

\* current_context.update(context_updates)  (base.py 84)
ReplaceContext(current_context, context_updates) == context_updates
MergeContext(current_context, context_updates) ==
    DictUpdate(current_context, context_updates)

\* the context_updates callers pass: JSON objects
UpdatesInputs ==
    {EmptyDict,
     [k \in {"step"} |-> "confirm_booking"],
     [k \in {"date"} |-> "tomorrow"],
     [k \in {"step", "date"} |-> IF k = "step" THEN "select_time" ELSE "today"]}

\* SessionManager.update_session_context -> BaseChannel.update_session_context,
\* one call run from its read to its commit  (session_manager.py 78-81, base.py 81-86)
UpdateSessionContextWith(inputs) ==
    /\ UNCHANGED nonSessionVars
    /\ \E i \in DOMAIN sessions, context_updates \in inputs :
       LET current_context == GetContext(sessions[i])
       IN  /\ sessions' = [sessions EXCEPT
                  ![i] = SetContext(@, MergeContext(current_context, context_updates))]
           /\ ret' = WithArgs(context_updates,
                              Returned("update_session_context", "ok",
                                       Some(sessions[i].id), None, None))
           /\ UNCHANGED <<channels, messages, nextId, xferred>>

UpdateSessionContext == UpdateSessionContextWith(UpdatesInputs)

\* the updates of two dialogue turns: one key each
OneKeyUpdatesInputs == {u \in UpdatesInputs : Cardinality(DOMAIN u) = 1}

\* update_session_context served by two workers side by side.  A call first
\* reads the context and merges the updates into its own copy (base.py 83-84)
UpdateSessionContextRead(w) ==
    /\ UNCHANGED <<bookings, session, pending, resp, tokens, now, auth>>
    /\ calls[w] = NoCall
    /\ \E i \in DOMAIN sessions, context_updates \in OneKeyUpdatesInputs :
       LET read == GetContext(sessions[i])
       IN  calls' = [calls EXCEPT ![w] =
                        [op |-> "update_session_context", sid |-> sessions[i].id,
                         read |-> read, context_updates |-> context_updates,
                         current_context |-> MergeContext(read, context_updates)]]
    /\ UNCHANGED sessionVars

\* what set_context receives: the call's own copy
WrittenContextFresh(row, call) == MergeContext(GetContext(row), call.context_updates)
WrittenContext(row, call) == call.current_context

\* ... and then stores its copy and commits (base.py 85-86).  The result notes
\* what the call had read and the stored context its write replaced
UpdateSessionContextWrite(w) ==
    /\ UNCHANGED <<bookings, session, pending, resp, tokens, now, auth>>
    /\ calls[w] # NoCall
    /\ calls[w].op = "update_session_context"
    /\ LET i == RowOf(sessions, calls[w].sid)
       IN  /\ sessions' = [sessions EXCEPT
                  ![i] = SetContext(@, WrittenContext(@, calls[w]))]
           /\ ret' = [op |-> "update_session_context", outcome |-> "ok",
                      sid |-> Some(calls[w].sid), src |-> Some(w), count |-> None,
                      args |-> Some(calls[w].context_updates),
                      read |-> calls[w].read,
                      replaced |-> GetContext(sessions[i])]
    /\ calls' = [calls EXCEPT ![w] = NoCall]
    /\ UNCHANGED <<channels, messages, nextId, xferred>>

\* the outcomes of a call that stores rows: db.session.commit() may raise
CommitInputs == {"ok", "fails"}

\* session.status = 'transferred', which transfer_session reaches only after
\* create_session has returned
MarkTransferredAlways(rows, i, created) ==
    [rows EXCEPT ![i].status = "transferred", ![i].updated_at = now]
MarkTransferred(rows, i, created) ==
    IF created
    THEN [rows EXCEPT ![i].status = "transferred", ![i].updated_at = now]
    ELSE rows

\* the session transfer_session creates on the target channel: the user_id and
\* the parsed context of the source, the channel user id of the target
TransferredSessionAnonymous(id, src, channel_id, target_channel_user_id) ==
    NewSession(id, None, channel_id, target_channel_user_id, Some(GetContext(src)))
TransferredSession(id, src, channel_id, target_channel_user_id) ==
    NewSession(id, src.user_id, channel_id, target_channel_user_id, Some(GetContext(src)))

\* SessionManager.transfer_session  (session_manager.py 83-101)
TransferSession ==
    /\ UNCHANGED nonSessionVars
    /\ \E i \in DOMAIN sessions, target_channel_name \in ChannelInputs,
       target_channel_user_id \in ChannelUserInputs,
       create \in CommitInputs, commit \in CommitInputs :
       LET src == sessions[i]
           chans == GetOrCreateChannel(target_channel_name)
           new == TransferredSession(nextId, src, ChannelId(chans, target_channel_name),
                                     target_channel_user_id)
           Result(outcome, sid) ==
               WithArgs(<<target_channel_name, target_channel_user_id>>,
                        Returned("transfer_session", outcome, sid, Some(src.id), None))
       IN  /\ UNCHANGED messages
           /\ IF target_channel_name \notin KnownChannels
              THEN \* _get_channel raises ValueError
                   /\ ret' = Result("ValueError", None)
                   /\ sessions' = MarkTransferred(sessions, i, FALSE)
                   /\ UNCHANGED <<channels, nextId, xferred>>
              ELSE /\ channels' = chans
                   /\ CanCreate
                   /\ IF create = "fails" \/ ~BindsContext(Some(GetContext(src)))
                      THEN \* the commit of create_session raises: nothing is stored
                           /\ ret' = Result("create_failed", None)
                           /\ sessions' = MarkTransferred(sessions, i, FALSE)
                           /\ UNCHANGED <<nextId, xferred>>
                      ELSE IF commit = "fails"
                      THEN \* the new session is stored, the status change is not
                           /\ sessions' = Append(sessions, new)
                           /\ nextId' = nextId + 1
                           /\ ret' = Result("commit_failed", None)
                           /\ UNCHANGED xferred
                      ELSE /\ sessions' = Append(MarkTransferred(sessions, i, TRUE), new)
                           /\ nextId' = nextId + 1
                           /\ xferred' = xferred \cup {src.id}
                           /\ ret' = Result("ok", Some(nextId))

\* the rows cleanup_old_sessions selects
IsOld(row, cutoff_date) == row.status = "closed" /\ row.updated_at < cutoff_date
KeepNew(rows, cutoff_date) ==
    LET Kept(row) == ~IsOld(row, cutoff_date) IN SelectSeq(rows, Kept)

OwnsMessages(row) == \E m \in DOMAIN messages : messages[m].session_id = row.id

\* SessionManager.cleanup_old_sessions  (session_manager.py 117-131).  Deleting a
\* session that owns messages sets their session_id to NULL, which the NOT NULL
\* column refuses (models.py 133, 150): the commit raises and nothing is deleted
CleanupOldSessions ==
    /\ UNCHANGED nonSessionVars
    /\ \E days_inactive \in DaysInputs :
       LET cutoff_date == now - days_inactive
           old == {i \in DOMAIN sessions : IsOld(sessions[i], cutoff_date)}
           Result(outcome, count) ==
               WithArgs(days_inactive,
                        Returned("cleanup_old_sessions", outcome, None, None, count))
       IN  /\ IF \E i \in old : OwnsMessages(sessions[i])
              THEN /\ ret' = Result("IntegrityError", None)
                   /\ UNCHANGED sessions
              ELSE /\ sessions' = KeepNew(sessions, cutoff_date)
                   /\ ret' = Result("ok", Some(Cardinality(old)))
           /\ UNCHANGED <<channels, messages, nextId, xferred>>

\* WebsiteChannel.receive_message without a session_id, InstagramChannel and
\* VoiceChannel.receive_message: look the sender up, create a session when none
\* is active, save the inbound message  (website.py 61-91, instagram.py 59-91,
\* voice.py 119-169).  Instagram returns None for an event without a sender
ReceiveMessage ==
    /\ UNCHANGED nonSessionVars
    /\ \E channel_name \in KnownChannels \cap ChannelInputs, user_id \in UserIdInputs,
       channel_user_id \in ChannelUserInputs :
       LET chans == GetOrCreateChannel(channel_name)
           cid == ChannelId(chans, channel_name)
           found == SessionsByUserId(cid, channel_user_id)
           uid == IF channel_name = "website" THEN user_id ELSE None
       IN  /\ channels' = chans
           /\ UNCHANGED xferred
           /\ IF channel_name = "instagram" /\ ~TruthyStr(channel_user_id)
              THEN /\ ret' = Returned("receive_message", "none", None, None, None)
                   /\ UNCHANGED <<sessions, messages, nextId>>
              ELSE IF found # {}
              THEN \E i \in found :
                      /\ CanSave(1)
                      /\ messages' = Append(messages,
                                            MessageRow(sessions[i].id, "inbound", "hello"))
                      /\ sessions' = BumpActivity(sessions, i)
                      /\ ret' = Returned("receive_message", "found", Some(sessions[i].id),
                                         None, None)
                      /\ UNCHANGED nextId
              ELSE /\ CanCreate
                   /\ CanSave(1)
                   /\ messages' = Append(messages, MessageRow(nextId, "inbound", "hello"))
                   /\ sessions' = Append(sessions,
                          Touched(NewSession(nextId, uid, cid, channel_user_id, None)))
                   /\ nextId' = nextId + 1
                   /\ ret' = Returned("receive_message", "created", Some(nextId),
                                      None, None)

\* the history model stores at most this many messages
MaxHistory == 3

\* BaseChannel.create_session of the website channel for a logged-in user, no
\* context given  (base.py 30-45)
CreateSession ==
    /\ UNCHANGED nonSessionVars
    /\ CanCreate
    /\ LET chans == GetOrCreateChannel("website")
       IN  /\ channels' = chans
           /\ sessions' = Append(sessions,
                  NewSession(nextId, Some(1), ChannelId(chans, "website"), None, None))
           /\ nextId' = nextId + 1
           /\ ret' = Returned("create_session", "created", Some(nextId), None, None)
           /\ UNCHANGED <<messages, xferred>>

\* BaseChannel.save_message on an existing session  (base.py 62-80)
SaveMessage ==
    /\ UNCHANGED nonSessionVars
    /\ Len(messages) < MaxHistory
    /\ \E i \in DOMAIN sessions, direction \in {"inbound", "outbound"} :
       /\ messages' = Append(messages, MessageRow(sessions[i].id, direction, "hello"))
       /\ sessions' = BumpActivity(sessions, i)
       /\ ret' = Returned("save_message", "ok", Some(sessions[i].id), None, None)
       /\ UNCHANGED <<channels, nextId, xferred>>

\* a message's primary key is its position in the table
MessageIds(sid) == {m \in DOMAIN messages : messages[m].session_id = sid}

Reversed(s) == [k \in 1..Len(s) |-> s[Len(s) + 1 - k]]
Min(a, b) == IF a < b THEN a ELSE b

\* ORDER BY created_at DESC: every arrangement of the ids the store may produce
\* (the order of rows with equal created_at is the store's choice)
OrderByCreatedAtDesc(ids) ==
    {q \in [1..Cardinality(ids) -> ids] :
        /\ \A a, b \in DOMAIN q : a # b => q[a] # q[b]
        /\ \A a \in DOMAIN q : a < Len(q) =>
              messages[q[a]].created_at >= messages[q[a + 1]].created_at}

LimitRows(q, limit) == SubSeq(q, 1, Min(limit, Len(q)))

\* list(reversed(messages))  (session_manager.py 115)
HistoryNewestFirst(q) == q
HistoryList(q) == Reversed(q)

LimitInputs == {0, 1, 2}

\* SessionManager.get_conversation_history  (session_manager.py 109-115)
GetConversationHistory ==
    /\ UNCHANGED nonSessionVars
    /\ \E i \in DOMAIN sessions, limit \in LimitInputs :
       \E q \in OrderByCreatedAtDesc(MessageIds(sessions[i].id)) :
          /\ ret' = [op |-> "get_conversation_history", outcome |-> "ok",
                     sid |-> Some(sessions[i].id), src |-> None, count |-> None,
                     args |-> Some(limit),
                     history |-> HistoryList(LimitRows(q, limit))]
          /\ UNCHANGED <<channels, sessions, messages, nextId, xferred>>

----------------------------------------------------------------------------
(* Authentication tokens (models.py, channels/website.py, api_routes.py) *)

\* the model issues at most this many tokens
MaxTokens == 2

\* AuthenticationToken.is_valid  (models.py 191-197)
IsValidNoExpiry(row) == row.is_active
IsValid(row) ==
    IF ~row.is_active THEN FALSE
    ELSE IF row.expires_at # None /\ Val(row.expires_at) < now THEN FALSE
    ELSE TRUE

\* the row a token query finds, if any: filter_by(token=..., is_active=True)
\* and, for the website channel, channel_id=...
TokenRows(token, channel_id) ==
    {i \in DOMAIN tokens :
        /\ Some(tokens[i].token) = token
        /\ tokens[i].is_active
        /\ channel_id # None => tokens[i].channel_id = channel_id}

\* WebsiteChannel.authenticate: the token row it accepts, if any, and the user
\* id it returns (None when it refuses)
AuthenticateRows(chans, token) ==
    IF token = None THEN {}
    ELSE {i \in TokenRows(token, Some(ChannelId(chans, "website"))) : IsValid(tokens[i])}
AuthenticateResult(chans, token) ==
    IF AuthenticateRows(chans, token) = {} THEN None
    ELSE tokens[CHOOSE i \in AuthenticateRows(chans, token) : TRUE].user_id

\* the token lookup of token_required, /api/chat/message and the history endpoint:
\* the user id of the token, None when it is refused
TokenUser(token) ==
    IF token = None THEN None
    ELSE LET rows == TokenRows(token, None)
         IN  IF rows # {} /\ IsValid(tokens[CHOOSE i \in rows : TRUE])
             THEN tokens[CHOOSE i \in rows : TRUE].user_id
             ELSE None

AuthOutcome(op, token, user) ==
    [op |-> op, token |-> token, user |-> user, at |-> now]

TokenInputs == {None} \cup {Some(t) : t \in 1..MaxTokens}
ExpiresDaysInputs == {0, 1}

\* WebsiteChannel.generate_token, reached from POST /api/tokens
\* (website.py 33-48, api_routes.py 370-390)
GenerateToken(u) ==
    \E expires_days \in ExpiresDaysInputs :
       LET chans == GetOrCreateChannel("website") IN
       /\ Len(tokens) < MaxTokens
       /\ channels' = chans
       /\ tokens' = Append(tokens,
             [token |-> Len(tokens) + 1, user_id |-> Some(u),
              channel_id |-> Some(ChannelId(chans, "website")),
              expires_at |-> Some(now + expires_days),
              is_active |-> TRUE, last_used |-> None])
       /\ auth' = AuthOutcome("generate_token", Some(Len(tokens) + 1), Some(u))
       /\ UNCHANGED <<calls, bookingVars, sessions, messages, nextId, ret, xferred, now>>

\* WebsiteChannel.authenticate  (website.py 15-31), as the WebSocket connect calls it
WebsiteAuthenticate ==
    \E token \in TokenInputs :
       LET chans == GetOrCreateChannel("website")
           rows == AuthenticateRows(chans, token)
       IN  /\ channels' = chans
           /\ auth' = AuthOutcome("authenticate", token, AuthenticateResult(chans, token))
           /\ tokens' = [i \in DOMAIN tokens |->
                            IF i \in rows THEN [tokens[i] EXCEPT !.last_used = Some(now)]
                            ELSE tokens[i]]
           /\ UNCHANGED <<calls, bookingVars, sessions, messages, nextId, ret, xferred, now>>

RevokeTokenDeletes(u) ==
    \E i \in DOMAIN tokens :
       /\ tokens[i].user_id = Some(u)
       /\ tokens' = [j \in 1..(Len(tokens) - 1) |->
                        IF j < i THEN tokens[j] ELSE tokens[j + 1]]
       /\ auth' = AuthOutcome("revoke_token", Some(tokens[i].token), Some(u))
       /\ UNCHANGED <<calls, bookingVars, sessionVars, now>>

\* DELETE /api/tokens/<id>  (api_routes.py 420-441)
RevokeToken(u) ==
    \E i \in DOMAIN tokens :
       /\ tokens[i].user_id = Some(u)
       /\ tokens' = [tokens EXCEPT ![i].is_active = FALSE]
       /\ auth' = AuthOutcome("revoke_token", Some(tokens[i].token), Some(u))
       /\ UNCHANGED <<calls, bookingVars, sessionVars, now>>

\* the clock advances by a day
Tick ==
    /\ now < MaxNow
    /\ now' = now + 1
    /\ UNCHANGED <<calls, bookingVars, sessionVars, tokenVars>>

\* str(user_id)
Str(n) == CASE n = 1 -> "1" [] n = 2 -> "2" [] OTHER -> "0"

\* get_chatbot_response: a pure function of the message text
BotResponse(message) == IF message = "hello" THEN "greeting" ELSE "default"

CookieInputs == {None, Some(1), Some(2)}
SessionIdInputs == {None} \cup {Some(i) : i \in 1..MaxSessions}

\* the user a request is served as: the login cookie first, else the token
RequestUser(cookie, token) == IF cookie # None THEN cookie ELSE TokenUser(token)

\* the table after receive_message and send_message saved a message each
TwoMessages(sid, message) ==
    Append(Append(messages, MessageRow(sid, "inbound", message)),
           MessageRow(sid, "outbound", BotResponse(message)))

\* POST /api/chat/message  (api_routes.py 61-127)
ApiChatMessage ==
    \E cookie \in CookieInputs, token \in TokenInputs, session_id \in SessionIdInputs :
       LET user_id == RequestUser(cookie, token)
           chans == GetOrCreateChannel("website")
           cid == ChannelId(chans, "website")
           found == IF session_id = None THEN {}
                    ELSE SessionsBySessionId(cid, Val(session_id))
       IN  /\ UNCHANGED <<calls, bookingVars, tokens, now, auth, xferred>>
           /\ IF user_id = None
              THEN /\ ret' = Returned("chat_message", "401", None, None, None)
                   /\ UNCHANGED <<channels, sessions, messages, nextId>>
              ELSE /\ channels' = chans
                   /\ CanSave(2)
                   /\ IF found # {}
                      THEN \E i \in found :
                              /\ messages' = TwoMessages(sessions[i].id, "hello")
                              /\ sessions' = BumpActivity(sessions, i)
                              /\ ret' = Returned("chat_message", "found",
                                                 Some(sessions[i].id), user_id, None)
                              /\ UNCHANGED nextId
                      ELSE /\ CanCreate
                           /\ messages' = TwoMessages(nextId, "hello")
                           /\ sessions' = Append(sessions,
                                  Touched(NewSession(nextId, user_id, cid,
                                                     Some(Str(Val(user_id))), None)))
                           /\ nextId' = nextId + 1
                           /\ ret' = Returned("chat_message", "created", Some(nextId),
                                              user_id, None)

\* limit=50, the default of get_conversation_history  (session_manager.py 109)
DefaultHistoryLimit == 50

\* session_obj.user_id != user_id answers 403  (api_routes.py 170-171)
OwnsSessionAny(row, user_id) == TRUE
OwnsSession(row, user_id) == row.user_id = user_id

\* GET /api/chat/session/<session_id>/history  (api_routes.py 146-189)
ApiChatHistory ==
    \E cookie \in CookieInputs, token \in TokenInputs, session_id \in 1..(MaxSessions + 1) :
       LET user_id == RequestUser(cookie, token)
           chans == GetOrCreateChannel("website")
           found == SessionsBySessionId(ChannelId(chans, "website"), session_id)
           Answer(outcome, history) ==
               [op |-> "chat_history", outcome |-> outcome, sid |-> Some(session_id),
                src |-> user_id, count |-> None, args |-> None, history |-> history]
       IN  /\ UNCHANGED <<calls, bookingVars, tokens, now, auth, sessions, messages, nextId, xferred>>
           /\ IF user_id = None
              THEN /\ ret' = Answer("401", <<>>)
                   /\ UNCHANGED channels
              ELSE /\ channels' = chans
                   /\ IF found = {}
                      THEN ret' = Answer("404", <<>>)
                      ELSE \E i \in found :
                              IF ~OwnsSession(sessions[i], user_id)
                              THEN ret' = Answer("403", <<>>)
                              ELSE \E q \in OrderByCreatedAtDesc(MessageIds(sessions[i].id)) :
                                      ret' = Answer("ok",
                                                HistoryList(LimitRows(q, DefaultHistoryLimit)))

\* POST /api/chat/session, behind token_required  (api_routes.py 25-49, 129-144)
ApiChatSession ==
    \E token \in TokenInputs :
       LET user_id == TokenUser(token)
           chans == GetOrCreateChannel("website")
       IN  /\ UNCHANGED <<calls, bookingVars, tokens, now, messages, xferred>>
           /\ auth' = AuthOutcome("token_required", token, user_id)
           /\ IF user_id = None
              THEN /\ ret' = Returned("chat_session", "401", None, None, None)
                   /\ UNCHANGED <<channels, sessions, nextId>>
              ELSE /\ CanCreate
                   /\ channels' = chans
                   /\ sessions' = Append(sessions,
                          NewSession(nextId, user_id, ChannelId(chans, "website"),
                                     Some(Str(Val(user_id))), None))
                   /\ nextId' = nextId + 1
                   /\ ret' = Returned("chat_session", "created", Some(nextId),
                                      user_id, None)

\* the WebSocket chat_message handler, for a connected user  (app.py 1286-1326)
WsChatMessage ==
    \E u \in Users, session_id \in SessionIdInputs :
       LET chans == GetOrCreateChannel("website")
           cid == ChannelId(chans, "website")
           found == IF session_id = None THEN {}
                    ELSE SessionsBySessionId(cid, Val(session_id))
       IN  /\ UNCHANGED <<calls, bookingVars, tokens, now, auth, xferred>>
           /\ channels' = chans
           /\ IF session_id # None /\ found = {}
              THEN \* save_message(session=None) raises AttributeError
                   /\ ret' = Returned("ws_chat_message", "AttributeError", None,
                                      Some(u), None)
                   /\ UNCHANGED <<sessions, messages, nextId>>
              ELSE IF found # {}
              THEN \E i \in found :
                      /\ CanSave(2)
                      /\ messages' = TwoMessages(sessions[i].id, "hello")
                      /\ sessions' = BumpActivity(sessions, i)
                      /\ ret' = Returned("ws_chat_message", "found",
                                         Some(sessions[i].id), Some(u), None)
                      /\ UNCHANGED nextId
              ELSE /\ CanCreate
                   /\ CanSave(2)
                   /\ messages' = TwoMessages(nextId, "hello")
                   /\ sessions' = Append(sessions,
                          Touched(NewSession(nextId, Some(u), cid, Some(Str(u)), None)))
                   /\ nextId' = nextId + 1
                   /\ ret' = Returned("ws_chat_message", "created", Some(nextId),
                                      Some(u), None)

----------------------------------------------------------------------------
(* The Instagram channel (channels/instagram.py) *)

\* GET /webhooks/instagram: hub.verify_token, hub.mode and hub.challenge of the
\* request, and INSTAGRAM_VERIFY_TOKEN of the environment (None when unset)
VerifyTokenInputs == {None, Some("s3cret"), Some("wrong")}
ModeInputs == {None, Some("subscribe"), Some("unsubscribe")}
ChallengeInputs == {Some("1158201444")}
VerifyTokenSetInputs == {None, Some("s3cret")}

\* InstagramChannel.authenticate  (instagram.py 18-23)
Authenticate(verify_token, mode, challenge, verify_token_set) ==
    IF mode = Some("subscribe") /\ verify_token = verify_token_set
    THEN challenge ELSE None

\* the verification request of instagram_webhook  (api_routes.py 202-211)
InstagramAuthenticate ==
    /\ UNCHANGED nonSessionVars
    /\ \E verify_token \in VerifyTokenInputs, mode \in ModeInputs,
          challenge \in ChallengeInputs, verify_token_set \in VerifyTokenSetInputs :
       LET result == Authenticate(verify_token, mode, challenge, verify_token_set)
       IN  /\ ret' = [op |-> "instagram_authenticate",
                      outcome |-> IF TruthyStr(result) THEN "200" ELSE "403",
                      sid |-> None, src |-> None, count |-> None,
                      args |-> Some([verify_token |-> verify_token, mode |-> mode,
                                     challenge |-> challenge,
                                     verify_token_set |-> verify_token_set]),
                      result |-> result]
           /\ channels' = GetOrCreateChannel("instagram")
           /\ UNCHANGED <<sessions, messages, nextId, xferred>>

\* a webhook payload: {'entry': [{'messaging': [{'sender': {'id': ...},
\* 'message': {'text': ..., 'mid': ...}}]}]}.  A key that is missing is None, a
\* list is a sequence
Event(sender_id, message) == [sender |-> sender_id, message |-> message]
Entry(messaging) == [messaging |-> messaging]
Payload(entry) == [entry |-> entry]

EventInputs ==
    {Event(sender_id, message) :
        sender_id \in {None, Some("ig1")}, message \in {None, Some("hello")}}
EntryInputs ==
    {Entry(None), Entry(Some(<<>>))} \cup {Entry(Some(<<ev>>)) : ev \in EventInputs}
PayloadInputs ==
    {Payload(None), Payload(Some(<<>>))} \cup {Payload(Some(<<en>>)) : en \in EntryInputs}

\* d.get(key, [{}])[0]: the default's only element when the key is missing, the
\* first element of the list, or None when the list is empty (IndexError)
FirstOrDefault(list, default) ==
    IF list = None THEN Some(default)
    ELSE IF Len(Val(list)) = 0 THEN None
    ELSE Some(Val(list)[1])

\* message.get('text', '') of messaging.get('message', {})
MessageText(message) == IF message = None THEN "" ELSE Val(message)

\* InstagramChannel.receive_message  (instagram.py 59-91)
InstagramReceiveMessage ==
    /\ UNCHANGED nonSessionVars
    /\ \E data \in PayloadInputs :
       LET entry == FirstOrDefault(data.entry, Entry(None))
           messaging == FirstOrDefault(Val(entry).messaging, Event(None, None))
           sender_id == Val(messaging).sender
           message_text == MessageText(Val(messaging).message)
           chans == GetOrCreateChannel("instagram")
           cid == ChannelId(chans, "instagram")
           found == SessionsByUserId(cid, sender_id)
           Result(outcome, sid) ==
               WithArgs(data, Returned("instagram_receive_message", outcome, sid,
                                       None, None))
       IN  /\ channels' = chans
           /\ UNCHANGED xferred
           /\ IF entry = None \/ messaging = None
              THEN /\ ret' = Result("IndexError", None)
                   /\ UNCHANGED <<sessions, messages, nextId>>
              ELSE IF ~TruthyStr(sender_id)
              THEN /\ ret' = Result("none", None)
                   /\ UNCHANGED <<sessions, messages, nextId>>
              ELSE IF found # {}
              THEN \E i \in found :
                      /\ CanSave(1)
                      /\ messages' = Append(messages,
                             MessageRow(sessions[i].id, "inbound", message_text))
                      /\ sessions' = BumpActivity(sessions, i)
                      /\ ret' = Result("found", Some(sessions[i].id))
                      /\ UNCHANGED nextId
              ELSE /\ CanCreate
                   /\ CanSave(1)
                   /\ messages' = Append(messages,
                                         MessageRow(nextId, "inbound", message_text))
                   /\ sessions' = Append(sessions,
                          Touched(NewSession(nextId, None, cid, sender_id, None)))
                   /\ nextId' = nextId + 1
                   /\ ret' = Result("created", Some(nextId))

\* what requests.post and raise_for_status do: the call returns a 2xx answer
\* with a JSON body, a 2xx answer whose body is not JSON, a non-2xx answer, or
\* the request itself fails
TransportInputs == {"ok", "ok_not_json", "non_2xx", "request_error"}

\* whether send_message reaches save_message  (instagram.py 41-52)
SavesOutboundAlways(transport) == TRUE
SavesOutbound(transport) == transport = "ok"

SendOutcome(transport) ==
    CASE transport = "ok" -> "sent"
      [] transport = "ok_not_json" -> "JSONDecodeError"
      [] transport = "non_2xx" -> "HTTPError"
      [] transport = "request_error" -> "RequestException"

\* InstagramChannel.send_message  (instagram.py 25-57)
InstagramSendMessage ==
    /\ UNCHANGED nonSessionVars
    /\ \E i \in DOMAIN sessions, transport \in TransportInputs :
       LET recipient_id == sessions[i].channel_user_id
           \* args: what the transport call did, if it was made
           Result(outcome) ==
               WithArgs(IF TruthyStr(recipient_id) THEN transport ELSE "not_called",
                        Returned("instagram_send_message", outcome,
                                 Some(sessions[i].id), None, None))
       IN  /\ UNCHANGED <<channels, nextId, xferred>>
           /\ IF ~TruthyStr(recipient_id)
              THEN /\ ret' = Result("ValueError")
                   /\ UNCHANGED <<sessions, messages>>
              ELSE IF SavesOutbound(transport)
              THEN /\ CanSave(1)
                   /\ messages' = Append(messages,
                                         MessageRow(sessions[i].id, "outbound", "reply"))
                   /\ sessions' = BumpActivity(sessions, i)
                   /\ ret' = Result(SendOutcome(transport))
              ELSE /\ ret' = Result(SendOutcome(transport))
                   /\ UNCHANGED <<sessions, messages>>

\* the model stores at most this many messages of webhook deliveries
MaxWebhookMessages == 4

\* a messaging event of a direct message: sender id, text and Instagram's
\* message id ("mid")
DirectMessage(sender_id, text, mid) == [sender |-> sender_id, text |-> text, mid |-> mid]

FirstDM == DirectMessage("ig1", "first", "mid1")
SecondDM == DirectMessage("ig1", "second", "mid2")

\* request.json of a webhook delivery: the "messaging" list of each entry
WebhookInputs ==
    {<<>>, <<<<>>>>, <<<<FirstDM>>>>, <<<<SecondDM>>>>, <<<<FirstDM, SecondDM>>>>,
     <<<<FirstDM>>, <<SecondDM>>>>}

\* save_message with a channel_message_id  (base.py 62-80)
ChannelMessageRow(sid, direction, content, channel_message_id) ==
    [session_id |-> sid, direction |-> direction, content |-> content,
     created_at |-> now, channel_message_id |-> channel_message_id]

\* the event receive_message reads from {'entry': [entry_item]}: always
\* messaging[0]  (instagram.py 61-62), whichever event the loop is at
EventRead(messaging, k) == messaging[1]

\* the events the two loops of the handler hand to receive_message, in order
\* (api_routes.py 217-220)
RECURSIVE EventsRead(_)
EventsRead(entry) ==
    IF entry = <<>> THEN <<>>
    ELSE [k \in DOMAIN Head(entry) |-> EventRead(Head(entry), k)] \o EventsRead(Tail(entry))

\* receive_message and send_message for each event in turn, on the tables t
\* (instagram.py 59-91, 25-57; api_routes.py 220-233).  A send that fails
\* raises, which ends the request
RECURSIVE Deliver(_, _, _, _)
Deliver(events, t, cid, transport) ==
    IF events = <<>> \/ t.failed THEN t
    ELSE LET ev == Head(events)
             found == {i \in DOMAIN t.sessions :
                          ActiveMatch(t.sessions[i], cid, Some(ev.sender))}
             i == IF found # {} THEN CHOOSE j \in found : TRUE ELSE Len(t.sessions) + 1
             rows == IF found # {} THEN t.sessions
                     ELSE Append(t.sessions,
                                 NewSession(t.nextId, None, cid, Some(ev.sender), None))
             sid == rows[i].id
             inbound == ChannelMessageRow(sid, "inbound", ev.text, Some(ev.mid))
             outbound == ChannelMessageRow(sid, "outbound", "reply", None)
         IN  Deliver(Tail(events),
                     [sessions |-> [rows EXCEPT ![i] = Touched(@)],
                      messages |-> IF SavesOutbound(transport)
                                   THEN t.messages \o <<inbound, outbound>>
                                   ELSE Append(t.messages, inbound),
                      nextId |-> IF found # {} THEN t.nextId ELSE t.nextId + 1,
                      failed |-> ~SavesOutbound(transport)],
                     cid, transport)

\* POST /api/instagram/webhook  (api_routes.py 194-240)
InstagramWebhook ==
    /\ UNCHANGED nonSessionVars
    /\ \E entry \in WebhookInputs, transport \in TransportInputs :
       LET chans == GetOrCreateChannel("instagram")
           t == Deliver(EventsRead(entry),
                        [sessions |-> sessions, messages |-> messages,
                         nextId |-> nextId, failed |-> FALSE],
                        ChannelId(chans, "instagram"), transport)
       IN  /\ Len(t.messages) <= MaxWebhookMessages
           /\ t.nextId <= MaxSessions + 1
           /\ channels' = chans
           /\ sessions' = t.sessions
           /\ messages' = t.messages
           /\ nextId' = t.nextId
           /\ ret' = WithArgs(entry,
                              Returned("instagram_webhook",
                                       IF t.failed THEN "500" ELSE "200",
                                       None, None, None))
           /\ UNCHANGED xferred

----------------------------------------------------------------------------

(* Specifications *)

Init ==
    /\ bookings = <<>>
    /\ session = [u \in Users |-> EmptyDict]
    /\ pending = [u \in Users |-> None]
    /\ resp = Response(0, "none", "none", None, None, NoButtons)
    /\ channels = <<>>
    /\ tokens = <<>>
    /\ sessions = <<>>
    /\ messages = <<>>
    /\ nextId = 1
    /\ ret = Returned("none", "none", None, None, None)
    /\ xferred = {}
    /\ now = 0
    /\ auth = AuthOutcome("none", None, None)
    /\ calls = [w \in Workers |-> NoCall]

AllIdle == \A u \in Users : pending[u] = None

ConfirmAndPay == \E u \in Users : ChatConfirmAndPay(u)
BookTicket == \E u \in Users : ChatBookTicket(u)
ApiBookRequest == \E u \in Users : ApiBook(u)
BookTicketRequest == \E u \in Users : BookTicketForm(u)
Insert == \E u \in Users : InsertBooking(u)
Cancel == \E u \in Users : CancelBooking(u)

\* the requests that create bookings, each up to its insert, and the cancel
BookingRequest ==
    \/ ConfirmAndPay
    \/ BookTicket
    \/ ApiBookRequest
    \/ BookTicketRequest
    \/ Cancel

\* requests of several users interleave between the capacity check and the insert
Next == BookingRequest \/ Insert
Spec == Init /\ [][Next]_vars

\* one request at a time: a request that passed the capacity test inserts before the next starts
SeqNext == (AllIdle /\ BookingRequest) \/ Insert
SeqSpec == Init /\ [][SeqNext]_vars

\* the chatbot dialogue of one user, up to the booking it creates
DialogueUsers == {1}
DialogueNext ==
    \E u \in DialogueUsers :
       \/ ChatStartBooking(u)
       \/ ChatSelectDate(u)
       \/ ChatSelectTime(u)
       \/ ChatSelectVisitors(u)
       \/ ChatBookFromAvailability(u)
       \/ ChatConfirmAndPay(u)
       \/ InsertBooking(u)
DialogueSpec == Init /\ [][DialogueNext]_vars

\* the dialogue of one user while groups book the slots of tomorrow one by one
FullDayNext ==
    \/ ApiBookGroup(2)
    \/ \E u \in DialogueUsers :
          \/ ChatStartBooking(u)
          \/ ChatSelectDate(u)
          \/ ChatSelectTime(u)
          \/ ChatSelectVisitors(u)
FullDaySpec == Init /\ [][FullDayNext]_vars

\* two users in the dialogue at once
IndependenceNext ==
    \E u \in Users :
       \/ ChatStartBooking(u)
       \/ ChatSelectDate(u)
       \/ ChatSelectTime(u)
       \/ ChatSelectVisitors(u)
IndependenceSpec == Init /\ [][IndependenceNext]_vars

\* the session manager's own operations
SessionNext ==
    \/ GetOrCreateSession
    \/ GetSession
    \/ CloseSession
    \/ TransferSession
    \/ Tick
SessionSpec == Init /\ [][SessionNext]_vars

\* every operation that creates a session, channel and HTTP / WebSocket handlers included
ChatNext ==
    \/ GetOrCreateSession
    \/ ReceiveMessage
    \/ TransferSession
    \/ ApiChatMessage
    \/ WsChatMessage
ChatSpec == Init /\ [][ChatNext]_vars

\* sessions that receive messages, are closed and are cleaned up later
CleanupNext ==
    \/ GetOrCreateSession
    \/ ReceiveMessage
    \/ CloseSession
    \/ CleanupOldSessions
    \/ Tick
CleanupSpec == Init /\ [][CleanupNext]_vars

\* sequential get_or_create_session calls only
GetOrCreateNext == GetOrCreateSession \/ Tick
GetOrCreateSpec == Init /\ [][GetOrCreateNext]_vars

\* messages saved at different times and read back
HistoryNext ==
    \/ CreateSession
    \/ SaveMessage
    \/ GetConversationHistory
    \/ Tick
HistorySpec == Init /\ [][HistoryNext]_vars

\* Instagram webhook traffic: verification, inbound events and replies
InstagramNext ==
    \/ CreateSession
    \/ InstagramAuthenticate
    \/ InstagramReceiveMessage
    \/ InstagramSendMessage
    \/ Tick
InstagramSpec == Init /\ [][InstagramNext]_vars

TokenNext ==
    \/ \E u \in Users : GenerateToken(u)
    \/ WebsiteAuthenticate
    \/ ApiChatSession
    \/ \E u \in Users : RevokeToken(u)
    \/ Tick
TokenSpec == Init /\ [][TokenNext]_vars

----------------------------------------------------------------------------
(* Properties *)

\* the date + slot pairs a booking can name
BookedDates == {Val(ParseDate(d)) : d \in {"today", "tomorrow"}}
BookedSlots == TimeSlotSet \cup {Val(t) : t \in SlotInputs \ {None}}


\* C1: in a run where requests are served one after the other, confirm_and_pay
\* creates a booking only if the visitors already booked for its date and slot
\* plus its own visitors are within the capacity of the slot at that moment, and a
\* request it rejects for capacity stores nothing.
C1_ConfirmWithinCapacity ==
    [][/\ (resp'.op = "confirm_and_pay" /\ resp'.outcome = "created"
           /\ Len(bookings') = Len(bookings) + 1)
          => LET row == bookings'[Len(bookings')]
             IN  BookedSum(row.date, row.time_slot) + row.visitors
                    <= CapacityOf(row.time_slot)
       /\ (resp'.op = "confirm_and_pay" /\ resp'.outcome = "rejected" /\ resp' # resp)
          => bookings' = bookings]_vars

\* a confirm_and_pay booking was created in a slot that already held a booking
C1_Witness ==
    /\ resp.op = "confirm_and_pay"
    /\ resp.outcome = "created"
    /\ Len(bookings) = 2
    /\ bookings[1].date = bookings[2].date
    /\ bookings[1].time_slot = bookings[2].time_slot

\* C2: in every reachable state the visitors booked for a date and slot sum up to
\* at most the capacity of the slot, however the booking requests interleave.
C2_CapacityNeverExceeded ==
    \A d \in BookedDates, slot \in BookedSlots : BookedSum(d, slot) <= CapacityOf(slot)

\* the active sessions of a channel and a channel user id
ActiveSessions(channel_id, channel_user_id) ==
    {i \in DOMAIN sessions :
        /\ sessions[i].channel_id = channel_id
        /\ sessions[i].channel_user_id = channel_user_id
        /\ sessions[i].status = "active"}

\* C3: after any sequence of get_or_create_session calls, every channel and every
\* channel user id a caller may pass (none included) has at most one active session.
C3_OneActivePerPair ==
    \A channel_id \in DOMAIN channels, channel_user_id \in ChannelUserInputs :
       Cardinality(ActiveSessions(channel_id, channel_user_id)) <= 1

\* the channel user ids the HTTP and WebSocket handlers derive from a user id
HandlerUserIds == {Some(Str(u)) : u \in Users}

\* C4: whatever session-creating operations have run, a channel and a channel
\* user id that names a user have at most one active session.
C4_OneActivePerNamedPair ==
    \A channel_id \in DOMAIN channels,
       channel_user_id \in (ChannelUserInputs \cup HandlerUserIds) \ {None} :
       Cardinality(ActiveSessions(channel_id, channel_user_id)) <= 1

\* the stored dialogue step of a user, None when there is no dialogue state
StoredStep(sess, u) ==
    IF BookingKey \in DOMAIN sess[u] THEN Get(sess[u][BookingKey], "step") ELSE None

\* the step that follows a step in the dialogue
NextStep(step) ==
    CASE step = Some("select_date") -> Some("select_time")
      [] step = Some("select_time") -> Some("select_visitors")
      [] step = Some("select_visitors") -> Some("confirm_booking")
      [] OTHER -> None

\* C5: the stored dialogue step changes only by moving one step forward, by
\* start_booking setting it to select_date, or by a created booking clearing it.
C5_StepForwardOnly ==
    [][\A u \in Users :
          StoredStep(session', u) # StoredStep(session, u)
          => \/ /\ StoredStep(session, u) # None
                /\ StoredStep(session', u) = NextStep(StoredStep(session, u))
             \/ /\ resp'.op = "start_booking"
                /\ StoredStep(session', u) = Some("select_date")
             \/ /\ resp'.outcome = "created"
                /\ StoredStep(session', u) = None]_vars

\* the token rows whose expires_at lies in the past
Expired(row, at) == row.expires_at # None /\ Val(row.expires_at) < at

\* C6: a token whose expires_at is in the past is accepted neither by
\* WebsiteChannel.authenticate nor by token_required, whatever its is_active flag.
C6_ExpiredNeverAccepted ==
    /\ \A i \in DOMAIN tokens :
          Expired(tokens[i], now)
          => /\ AuthenticateResult(GetOrCreateChannel("website"),
                                   Some(tokens[i].token)) = None
             /\ TokenUser(Some(tokens[i].token)) = None
    /\ (auth.op \in {"authenticate", "token_required"} /\ auth.user # None)
       => \E i \in DOMAIN tokens :
             /\ Some(tokens[i].token) = auth.token
             /\ ~Expired(tokens[i], auth.at)

\* an expired token that is still active was presented and refused
C6_Witness ==
    /\ auth.op \in {"authenticate", "token_required"}
    /\ auth.user = None
    /\ \E i \in DOMAIN tokens :
          /\ Some(tokens[i].token) = auth.token
          /\ tokens[i].is_active
          /\ Expired(tokens[i], auth.at)

\* the source and the target of the transfer that returned last
TransferSource == sessions[RowOf(sessions, Val(ret.src))]
TransferTarget == sessions[RowOf(sessions, Val(ret.sid))]
TransferDone == ret.op = "transfer_session" /\ ret.outcome = "ok"

\* C7: a successful transfer_session returns a new active session on the target
\* channel, with the target channel user id, the user_id of the source and a
\* context equal to the source's context key for key.
C7_TransferCopies ==
    TransferDone
    => /\ Val(ret.sid) # Val(ret.src)
       /\ TransferTarget.status = "active"
       /\ channels[TransferTarget.channel_id] = Val(ret.args)[1]
       /\ TransferTarget.channel_user_id = Val(ret.args)[2]
       /\ TransferTarget.user_id = TransferSource.user_id
       /\ DOMAIN GetContext(TransferTarget) = DOMAIN GetContext(TransferSource)
       /\ \A k \in DOMAIN GetContext(TransferSource) :
             GetContext(TransferTarget)[k] = GetContext(TransferSource)[k]

\* a session of a user with a context of two keys was transferred to another channel
C7_Witness ==
    /\ TransferDone
    /\ TransferSource.user_id # None
    /\ Cardinality(DOMAIN GetContext(TransferSource)) = 2
    /\ TransferTarget.channel_id # TransferSource.channel_id

\* C8: after a successful transfer the source session has status transferred, and
\* no later get_session(channel_user_id) or get_or_create_session returns it.
C8_TransferredNeverReturned ==
    /\ TransferDone => TransferSource.status = "transferred"
    /\ \A i \in DOMAIN sessions :
          sessions[i].id \in xferred => sessions[i].status # "active"
    /\ (ret.op \in {"get_session", "get_or_create_session"} /\ ret.sid # None)
       => Val(ret.sid) \notin xferred

\* a lookup with the channel and the channel user id of a transferred session
C8_Witness ==
    /\ ret.op \in {"get_session", "get_or_create_session"}
    /\ \E i \in DOMAIN sessions :
          /\ sessions[i].id \in xferred
          /\ TruthyStr(sessions[i].channel_user_id)
          /\ ret.args = Some(<<channels[sessions[i].channel_id],
                               sessions[i].channel_user_id>>)

\* C9: a transfer_session whose target is not created (unknown channel, failing
\* persist) changes no session, and a session becomes transferred only in a step
\* that also stores the new target session.
C9_TransferAtomic ==
    [][/\ (ret'.op = "transfer_session"
           /\ ret'.outcome \in {"ValueError", "create_failed"})
          => sessions' = sessions
       /\ \A i \in DOMAIN sessions :
             (sessions[i].status # "transferred" /\ i \in DOMAIN sessions'
              /\ sessions'[i].status = "transferred")
             => /\ Len(sessions') = Len(sessions) + 1
                /\ sessions'[Len(sessions')].id = Val(ret'.sid)
                /\ sessions'[Len(sessions')].status = "active"]_vars

\* a transfer failed before its target was created and its source is still active
C9_Witness ==
    /\ ret.op = "transfer_session"
    /\ ret.outcome \in {"ValueError", "create_failed"}
    /\ sessions[RowOf(sessions, Val(ret.src))].status = "active"

\* C10: cleanup_old_sessions deletes exactly the closed sessions whose updated_at
\* is before the cutoff and returns how many it deleted; active, escalated and
\* transferred sessions and newer closed sessions stay.
C10_CleanupExact ==
    [][(ret'.op = "cleanup_old_sessions" /\ (ret' # ret \/ sessions' # sessions))
       => LET cutoff_date == now - Val(ret'.args)
              Deleted(row) == row.status = "closed" /\ row.updated_at < cutoff_date
              left == {sessions'[i] : i \in DOMAIN sessions'}
          IN  /\ \A i \in DOMAIN sessions :
                    (sessions[i] \in left) <=> ~Deleted(sessions[i])
              /\ \A row \in left : \E i \in DOMAIN sessions : sessions[i] = row
              /\ ret'.count = Some(Len(sessions) - Len(sessions'))]_vars

\* C11: cleanup_old_sessions removes the messages of every session it deletes:
\* a call that selects sessions owning messages completes, and afterwards every
\* stored message still refers to an existing session.
C11_CleanupCascades ==
    [][(ret'.op = "cleanup_old_sessions" /\ (ret' # ret \/ sessions' # sessions))
       => /\ ret'.outcome = "ok"
          /\ \A m \in DOMAIN messages' :
                \E i \in DOMAIN sessions' : sessions'[i].id = messages'[m].session_id]_vars

\* C12: get_conversation_history(session, limit) returns at most limit messages,
\* all of that session, oldest first: the created_at values of the returned
\* list are non-decreasing.
C12_HistoryChronological ==
    ret.op = "get_conversation_history"
    => /\ Len(ret.history) <= Val(ret.args)
       /\ \A k \in DOMAIN ret.history :
             messages[ret.history[k]].session_id = Val(ret.sid)
       /\ \A k \in DOMAIN ret.history : k < Len(ret.history) =>
             messages[ret.history[k]].created_at
                <= messages[ret.history[k + 1]].created_at

\* a history of two messages stored at different times was cut by the limit
\* while another session has a message too
C12_Witness ==
    /\ ret.op = "get_conversation_history"
    /\ Len(ret.history) = 2
    /\ Cardinality(MessageIds(Val(ret.sid))) > 2
    /\ messages[ret.history[1]].created_at < messages[ret.history[2]].created_at

\* the date whose availability select_date computes, from the date it stored
SelectedTarget(sess, u) ==
    LET selected_date == Val(Get(Get(sess[u], BookingKey), "date"))
    IN  IF ParseDate(selected_date) # None THEN Val(ParseDate(selected_date))
        ELSE TodayDate

\* C13: when select_date computes availability, a slot whose booked visitors
\* reach its capacity is full, and the offered slot buttons are exactly the
\* configured slots that are not full, each once and in the configured order.
C13_ButtonsAreOpenSlots ==
    [][(resp'.op = "select_date" /\ resp'.outcome \in {"ok", "all_full"})
       => LET target_date == SelectedTarget(session', resp'.user)
              offered == {resp'.buttons[k] : k \in DOMAIN resp'.buttons}
          IN  /\ offered = {slot \in TimeSlotSet :
                               BookedSum(target_date, slot) < CapacityOf(slot)}
              /\ Cardinality(offered) = Len(resp'.buttons)
              /\ \A i, j \in DOMAIN TIME_SLOTS :
                    i < j => \A a, b \in DOMAIN resp'.buttons :
                                (resp'.buttons[a] = TIME_SLOTS[i]
                                 /\ resp'.buttons[b] = TIME_SLOTS[j]) => a < b]_vars

\* select_date answered for a date on which one slot is booked up to its
\* capacity exactly, and offered the other slots
C13_Witness ==
    /\ resp.op = "select_date"
    /\ resp.outcome = "ok"
    /\ SelectedTarget(session, resp.user) = TomorrowDate
    /\ BookedSum(TomorrowDate, "9AM-10AM") = CapacityOf("9AM-10AM")
    /\ Len(resp.buttons) = Len(TIME_SLOTS) - 1
    /\ \A k \in DOMAIN resp.buttons : resp.buttons[k] # "9AM-10AM"

EarlierSessions(channel_name, channel_user_id) ==
    {i \in DOMAIN sessions :
        /\ HasChannel(channel_name)
        /\ sessions[i].channel_id = ChannelId(channels, channel_name)
        /\ sessions[i].channel_user_id = channel_user_id}

\* C15: get_or_create_session never returns a closed, escalated or transferred
\* session: when the earlier sessions of the identity are all not active, a new
\* session is created and returned, and no earlier session changes its status.
C15_NeverResumesInactive ==
    [][(ret'.op = "get_or_create_session" /\ (ret' # ret \/ sessions' # sessions))
       => LET channel_name == Val(ret'.args)[1]
              channel_user_id == Val(ret'.args)[2]
              earlier == EarlierSessions(channel_name, channel_user_id)
          IN  /\ ret'.sid # None
                 => sessions'[RowOf(sessions', Val(ret'.sid))].status = "active"
              /\ (/\ TruthyStr(channel_user_id)
                  /\ earlier # {}
                  /\ \A i \in earlier : sessions[i].status # "active")
                 => /\ ret'.outcome = "created"
                    /\ \A i \in DOMAIN sessions : sessions[i].id # Val(ret'.sid)
              /\ \A i \in DOMAIN sessions : sessions'[i].status = sessions[i].status]_vars

\* C16: when the transport call of InstagramChannel.send_message fails (request
\* error or non-2xx answer) the failure reaches the caller, no outbound message
\* is stored and last_activity is not bumped; an outbound message is stored only
\* by a send whose transport call succeeded.
C16_FailedSendNotPersisted ==
    [][(ret'.op = "instagram_send_message"
        /\ (ret' # ret \/ messages' # messages \/ sessions' # sessions))
       => /\ Val(ret'.args) \in {"non_2xx", "request_error"}
             => /\ ret'.outcome \in {"HTTPError", "RequestException"}
                /\ messages' = messages
                /\ sessions' = sessions
          /\ messages' # messages
             => /\ Val(ret'.args) \in {"ok", "ok_not_json"}
                /\ Len(messages') = Len(messages) + 1
                /\ messages'[Len(messages')].direction = "outbound"
                /\ messages'[Len(messages')].session_id = Val(ret'.sid)]_vars

\* a reply to a session that already holds an inbound message failed in
\* transport and the session holds no outbound message
C16_Witness ==
    /\ ret.op = "instagram_send_message"
    /\ ret.outcome = "HTTPError"
    /\ \E m \in DOMAIN messages : messages[m].session_id = Val(ret.sid)
    /\ \A m \in DOMAIN messages :
          messages[m].session_id = Val(ret.sid) => messages[m].direction = "inbound"

\* a payload that carries no sender id or no message to extract
NothingToExtract(data) ==
    \/ data.entry = None
    \/ Len(Val(data.entry)) = 0
    \/ LET messaging == Val(data.entry)[1].messaging
       IN  \/ messaging = None
           \/ Len(Val(messaging)) = 0
           \/ Val(messaging)[1].sender = None
           \/ Val(messaging)[1].message = None

\* C17: InstagramChannel.receive_message returns null, without raising and
\* without creating a session or storing a message, for every payload with
\* nothing to extract: no 'entry', an empty entry list, no or an empty
\* 'messaging' list, an event without sender id, a sender without a message.
C17_NonMessageEventIgnored ==
    [][(ret'.op = "instagram_receive_message"
        /\ (ret' # ret \/ messages' # messages \/ sessions' # sessions)
        /\ NothingToExtract(Val(ret'.args)))
       => /\ ret'.outcome = "none"
          /\ sessions' = sessions
          /\ messages' = messages]_vars

\* C18: InstagramChannel.authenticate returns the challenge only if mode is
\* "subscribe" and the verify token equals the configured secret; in every
\* other case it returns null, in particular when the request carries no verify
\* token or when no secret is configured.
C18_ChallengeOnlyForSecret ==
    ret.op = "instagram_authenticate"
    => LET a == Val(ret.args)
           accepted == /\ a.mode = Some("subscribe")
                       /\ a.verify_token_set # None
                       /\ a.verify_token # None
                       /\ a.verify_token = a.verify_token_set
       IN  ret.result = IF accepted THEN a.challenge ELSE None

\* the dialogue step handlers that expect stored state
StepHandlers == {"select_date", "select_time", "select_visitors", "confirm_and_pay"}

\* C19: a dialogue step handler (select_date, select_time, select_visitors,
\* confirm_and_pay) called for a user without stored dialogue state does not
\* raise: it restarts the dialogue at select_date (no later step is stored) and
\* no booking is created.
C19_NoStateRestarts ==
    [][\A u \in Users :
          BookingKey \notin DOMAIN session[u]
          => /\ (resp' # resp /\ resp'.user = u /\ resp'.op \in StepHandlers)
                => /\ resp'.outcome # "error500"
                   /\ resp'.op # "select_date"
                      => StoredStep(session', u) \in {None, Some("select_date")}
             /\ (pending'[u] # pending[u] /\ pending'[u] # None)
                => Val(pending'[u]).op # "confirm_and_pay"]_vars

\* C20: select_visitors accepts exactly the integers 1..10: a value below 1 or
\* above 10 is rejected and the stored dialogue state is unchanged; a value in
\* 1..10 becomes the stored visitors and the stored step becomes confirm_booking.
C20_VisitorsRange ==
    [][\A u \in Users :
          (/\ resp' # resp
           /\ resp'.op = "select_visitors"
           /\ resp'.user = u
           /\ BookingKey \in DOMAIN session[u]
           /\ resp'.requested # None)
          => LET value == Val(resp'.requested)
             IN  IF value < 1 \/ value > 10
                 THEN /\ resp'.outcome = "out_of_range"
                      /\ session' = session
                 ELSE /\ resp'.outcome = "ok"
                      /\ Get(session'[u][BookingKey], "visitors") = Some(value)
                      /\ StoredStep(session', u) = Some("confirm_booking")]_vars

C22_RejectedReturnsToSelectTime ==
    [][\A u \in Users :
          (resp' # resp /\ resp'.op = "confirm_and_pay" /\ resp'.user = u
           /\ resp'.outcome = "rejected")
          => /\ bookings' = bookings
             /\ pending'[u] = None
             /\ StoredStep(session', u) = Some("select_time")
             /\ BookingKey \in DOMAIN session[u]
                => Get(session'[u][BookingKey], "date") = Get(session[u][BookingKey], "date")]_vars

\* C23: when select_date is given a date all of whose configured slots are
\* full, the dialogue does not advance: the stored step is still select_date
\* after the request, not select_time.
C23_AllFullStaysAtSelectDate ==
    [][\A u \in Users :
          (resp' # resp /\ resp'.op = "select_date" /\ resp'.user = u
           /\ resp'.outcome = "all_full")
          => /\ resp'.step = Some("select_date")
             /\ StoredStep(session', u) = Some("select_date")]_vars

\* C24: select_time accepts only a configured time slot that is not full on the
\* chosen date: whenever the step stores a time slot and moves on to
\* select_visitors, that slot is configured and has room on the stored date.
C24_SelectTimeOnlyOpenSlots ==
    [][\A u \in Users :
          (resp' # resp /\ resp'.op = "select_time" /\ resp'.user = u
           /\ (resp'.outcome = "ok" \/ session'[u] # session[u]))
          => LET stored == session'[u][BookingKey]
                 time_slot == Val(Get(stored, "time_slot"))
                 target_date == IF TruthyStr(Get(stored, "date"))
                                THEN SelectedTarget(session', u) ELSE TodayDate
             IN  /\ time_slot \in TimeSlotSet
                 /\ BookedSum(target_date, time_slot) < CapacityOf(time_slot)]_vars

\* whether a request of one kind can turn the session "own" of a user into
\* "after", judged from that session alone: from its stored dialogue state and
\* from what the request may carry, without reading any other session or the
\* bookings
OwnResult(op, own, after) ==
    LET has == BookingKey \in DOMAIN own
        info == IF has THEN own[BookingKey] ELSE EmptyDict
        carried == {EmptyDict, info, ForgedBookingData}
        Stores(key, values, step) ==
            /\ DOMAIN after = DOMAIN own \cup {BookingKey}
            /\ \A k \in DOMAIN own \ {BookingKey} : after[k] = own[k]
            /\ LET a == after[BookingKey]
               IN  /\ DOMAIN a = DOMAIN info \cup {key, "step"}
                   /\ a["step"] = Some(step)
                   /\ a[key] \in values
                   /\ \A k \in DOMAIN info \ {key, "step"} : a[k] = info[k]
        dates == {d \in ChatDateInputs \cup {Get(bd, "date") : bd \in carried} :
                     TruthyStr(d)}
        slots == {t \in SlotInputs \cup {Get(bd, "time_slot") : bd \in carried} :
                     TruthyStr(t)}
        counts == {n \in ChatVisitorInputs \cup {Get(bd, "visitors") : bd \in carried}
                         \cup {Some(1)} :
                      TruthyInt(n) /\ Val(n) >= 1 /\ Val(n) <= 10}
    IN  CASE op = "start_booking" -> after = DictSet(own, BookingKey, InitialBooking)
          [] op = "select_date" ->
               after = own \/ Stores("date", dates, "select_time")
          [] op = "select_time" ->
               after = own \/ (has /\ Stores("time_slot", slots, "select_visitors"))
          [] op = "select_visitors" ->
               after = own \/ (has /\ Stores("visitors", counts, "confirm_booking"))
          [] OTHER -> after = own

C26_RevokedStaysRevoked ==
    /\ [](\A i \in DOMAIN tokens :
             ~tokens[i].is_active
             => /\ AuthenticateResult(GetOrCreateChannel("website"),
                                      Some(tokens[i].token)) = None
                /\ TokenUser(Some(tokens[i].token)) = None)
    /\ [][/\ \A i \in DOMAIN tokens :
                /\ i \in DOMAIN tokens'
                /\ tokens'[i].token = tokens[i].token
                /\ ~tokens[i].is_active => ~tokens'[i].is_active
          /\ (auth'.op = "revoke_token" /\ auth' # auth)
             => \E i \in DOMAIN tokens' :
                   /\ Some(tokens'[i].token) = auth'.token
                   /\ ~tokens'[i].is_active
          /\ (auth'.op \in {"authenticate", "token_required"} /\ auth' # auth
              /\ auth'.user # None)
             => \E i \in DOMAIN tokens :
                   /\ Some(tokens[i].token) = auth'.token
                   /\ tokens[i].is_active]_vars

\* a revoked token that has not expired was presented and refused
C26_Witness ==
    /\ auth.op \in {"authenticate", "token_required"}
    /\ auth.user = None
    /\ \E i \in DOMAIN tokens :
          /\ Some(tokens[i].token) = auth.token
          /\ ~tokens[i].is_active
          /\ ~Expired(tokens[i], auth.at)

\* C27: for every token and every time, is_valid() is true exactly when
\* is_active is true and expires_at is null or later than now; a token is not
\* valid at the instant now = expires_at.
C27_ValidIffActiveAndUnexpired ==
    \A i \in DOMAIN tokens :
       IsValid(tokens[i])
       <=> /\ tokens[i].is_active
           /\ (tokens[i].expires_at = None \/ Val(tokens[i].expires_at) > now)

\* C28: WebsiteChannel.receive_message given a session_id that matches no
\* session of the website channel does not raise: the handlers that call it
\* end with a defined result, and every stored message belongs to a session.
C28_UnknownSessionIdHandled ==
    /\ ret.op \in {"ws_chat_message", "chat_message", "receive_message"}
       => ret.outcome # "AttributeError"
    /\ \A m \in DOMAIN messages :
          \E i \in DOMAIN sessions : sessions[i].id = messages[m].session_id

\* C29: an authenticated user never adds messages to a session owned by
\* another user: a /api/chat/message or chat_message request stores messages
\* only in sessions whose user_id is not a different user's.
C29_NoCrossUserMessages ==
    [][(ret'.op \in {"chat_message", "ws_chat_message"} /\ messages' # messages)
       => \A m \in DOMAIN messages' \ DOMAIN messages :
             \A i \in DOMAIN sessions' :
                (sessions'[i].id = messages'[m].session_id /\ sessions'[i].user_id # None)
                => sessions'[i].user_id = ret'.src]_vars

----------------------------------------------------------------------------
(* The chat history endpoint next to the requests that fill sessions *)

ChatHistoryNext ==
    \/ GetOrCreateSession
    \/ ApiChatMessage
    \/ ApiChatHistory
    \/ \E u \in Users : GenerateToken(u)

ChatHistorySpec == Init /\ [][ChatHistoryNext]_vars

\* C30: the history endpoint hands messages to the owner only: an answer with
\* messages is for the session's own user and holds that session's messages;
\* an authenticated request for another user's website session is answered
\* 403 without messages; one for an id of no website session is answered 404.
C30_HistoryOnlyForOwner ==
    ret.op = "chat_history"
    => LET requested == {i \in DOMAIN sessions :
                            /\ sessions[i].id = Val(ret.sid)
                            /\ channels[sessions[i].channel_id] = "website"}
       IN  /\ ret.outcome # "ok" => ret.history = <<>>
           /\ ret.outcome = "ok"
              => /\ \E i \in requested : sessions[i].user_id = ret.src
                 /\ \A k \in DOMAIN ret.history :
                       messages[ret.history[k]].session_id = Val(ret.sid)
           /\ (ret.src # None /\ \E i \in requested : sessions[i].user_id # ret.src)
              => ret.outcome = "403"
           /\ (ret.src # None /\ requested = {}) => ret.outcome = "404"

\* a user asked for the history of another user's session that holds messages
C30_Witness ==
    /\ ret.op = "chat_history"
    /\ ret.outcome = "403"
    /\ ret.src # None
    /\ MessageIds(Val(ret.sid)) # {}
    /\ \E i \in DOMAIN sessions :
          sessions[i].id = Val(ret.sid) /\ sessions[i].user_id \notin {None, ret.src}

----------------------------------------------------------------------------
(* Context updates of stored sessions *)

ContextNext ==
    \/ CreateSession
    \/ UpdateSessionContext
    \/ Tick

ContextSpec == Init /\ [][ContextNext]_vars

\* C31: update_session_context is a shallow merge: afterwards the context has
\* the keys of the previous context and of the updates and no others, a key of
\* the updates has its new value, any other key keeps its value, updated_at
\* and last_activity are the time of the call, no other session changes, and
\* the same updates applied once more give the same context.
C31_ShallowMerge ==
    [][(ret'.op = "update_session_context" /\ (ret' # ret \/ sessions' # sessions))
       => LET i == RowOf(sessions, Val(ret'.sid))
              before == GetContext(sessions[i])
              after == GetContext(sessions'[i])
              updates == Val(ret'.args)
          IN  /\ DOMAIN after = DOMAIN before \cup DOMAIN updates
              /\ \A k \in DOMAIN updates : after[k] = updates[k]
              /\ \A k \in DOMAIN before \ DOMAIN updates : after[k] = before[k]
              /\ sessions'[i].updated_at = now
              /\ sessions'[i].last_activity = now
              /\ sessions'[i].updated_at >= sessions[i].updated_at
              /\ \A j \in DOMAIN sessions : j # i => sessions'[j] = sessions[j]
              /\ SetContext(sessions'[i], MergeContext(after, updates)) = sessions'[i]]_vars

\* an update overwrote one key of a stored context and kept another, a day
\* after the session was last touched
C31_Witness ==
    /\ ret.op = "update_session_context"
    /\ Val(ret.args) = [k \in {"step"} |-> "confirm_booking"]
    /\ \E i \in DOMAIN sessions :
          /\ sessions[i].id = Val(ret.sid)
          /\ GetContext(sessions[i]) =
                [k \in {"step", "date"} |->
                    IF k = "step" THEN "confirm_booking" ELSE "today"]
          /\ sessions[i].updated_at = 1

----------------------------------------------------------------------------
(* Context updates of one session by two workers *)

RaceNext ==
    \/ CreateSession
    \/ \E w \in Workers : UpdateSessionContextRead(w)
    \/ \E w \in Workers : UpdateSessionContextWrite(w)

RaceSpec == Init /\ [][RaceNext]_vars

\* C32: a context update is an unprotected read-modify-write: the context a
\* call stores is what that call read merged with its own updates, so a key
\* that another call stored between the read and the write, and that the
\* call's updates do not name, is missing afterwards.
C32_LostUpdate ==
    (ret.op = "update_session_context" /\ ret.src # None)
    => LET i == RowOf(sessions, Val(ret.sid))
           stored == GetContext(sessions[i])
       IN  /\ stored = DictUpdate(ret.read, Val(ret.args))
           /\ \A k \in DOMAIN ret.replaced :
                 k \notin DOMAIN ret.read \cup DOMAIN Val(ret.args)
                 => k \notin DOMAIN stored

\* both calls have returned and the date the first one stored is gone
C32_Witness ==
    /\ \A w \in Workers : calls[w] = NoCall
    /\ ret.op = "update_session_context"
    /\ ret.src # None
    /\ "date" \in DOMAIN ret.replaced
    /\ \E i \in DOMAIN sessions :
          /\ sessions[i].id = Val(ret.sid)
          /\ GetContext(sessions[i]) = [k \in {"step"} |-> "confirm_booking"]

\* C33: within one session get_conversation_history lists the messages in the
\* order save_message stored them (a message's id is its position in that
\* order), also when two of them carry the same created_at.
C33_HistoryInSaveOrder ==
    ret.op = "get_conversation_history"
    => \A k \in DOMAIN ret.history :
          k < Len(ret.history) => ret.history[k] < ret.history[k + 1]

----------------------------------------------------------------------------
(* Channel objects constructed by two workers *)

ChannelRaceNext ==
    \/ \E w \in Workers : ChannelLookup(w)
    \/ \E w \in Workers : ChannelCreate(w)

ChannelRaceSpec == Init /\ [][ChannelRaceNext]_vars

\* C34: lazy channel creation tolerates a race: every construction of a
\* channel object completes without error, and no two Channel records share a
\* name.
C34_ChannelCreationRaceTolerant ==
    /\ ret.op = "get_or_create_channel" => ret.outcome # "IntegrityError"
    /\ \A a, b \in DOMAIN channels : channels[a] = channels[b] => a = b

\* C35: a malformed date given to select_date is a validation error: whenever
\* the step writes the dialogue state, the booking date it stored is 'today',
\* 'tomorrow' or a valid YYYY-MM-DD date; for any other value nothing is
\* stored and the step stays select_date.
C35_MalformedDateRejected ==
    [][\A u \in Users :
          (resp' # resp /\ resp'.op = "select_date" /\ resp'.user = u
           /\ session'[u] # session[u])
          => LET stored == Get(session'[u][BookingKey], "date")
             IN  TruthyStr(stored) /\ ParseDate(Val(stored)) # None]_vars

\* C36: every booking created through the chatbot dialogue has between 1 and
\* 10 visitors, whatever a confirm_and_pay request carries.
C36_DialogueBookingVisitorsInRange ==
    [][\A u \in Users :
          (pending[u] # None /\ Val(pending[u]).op = "confirm_and_pay"
           /\ bookings' # bookings)
          => bookings'[Len(bookings')].visitors \in 1..10]_vars

\* C37: confirm_and_pay goes on to create a booking only when the dialogue
\* state stored before the request had reached confirm_booking with date,
\* time slot and visitors set; a confirm sent earlier, or again after a
\* booking cleared the state, creates nothing.
C37_ConfirmOnlyAfterDialogue ==
    [][\A u \in Users :
          (pending[u] = None /\ pending'[u] # None
           /\ Val(pending'[u]).op = "confirm_and_pay")
          => /\ StoredStep(session, u) = Some("confirm_booking")
             /\ TruthyStr(Get(session[u][BookingKey], "date"))
             /\ TruthyStr(Get(session[u][BookingKey], "time_slot"))
             /\ TruthyInt(Get(session[u][BookingKey], "visitors"))]_vars

----------------------------------------------------------------------------
(* The life of a session's status *)

StatusNext ==
    \/ GetOrCreateSession
    \/ ReceiveMessage
    \/ UpdateSessionContextWith({[k \in {"date"} |-> "tomorrow"]})
    \/ CloseSession
    \/ TransferSession

StatusSpec == Init /\ [][StatusNext]_vars

\* C38: a session's status never returns to active: a session that is closed,
\* transferred or escalated is not active after any operation of the session
\* manager or of a channel.
C38_StatusNeverReactivated ==
    [][\A i \in DOMAIN sessions, j \in DOMAIN sessions' :
          (sessions'[j].id = sessions[i].id /\ sessions[i].status # "active")
          => sessions'[j].status # "active"]_vars

\* the context of a session that had been handed over to another channel was
\* updated, and the session is still transferred
C38_Witness ==
    /\ ret.op = "update_session_context"
    /\ \E i \in DOMAIN sessions :
          /\ sessions[i].id = Val(ret.sid)
          /\ sessions[i].status = "transferred"
          /\ "date" \in DOMAIN GetContext(sessions[i])

\* C39: a session that is not active receives no further messages: no request
\* or channel call stores a message in a closed or transferred session or
\* bumps its last_activity.
C39_InactiveSessionGetsNoMessages ==
    [][\A i \in DOMAIN sessions :
          sessions[i].status # "active"
          => /\ \A m \in DOMAIN messages' \ DOMAIN messages :
                   messages'[m].session_id # sessions[i].id
             /\ \A j \in DOMAIN sessions' :
                   sessions'[j].id = sessions[i].id
                   => sessions'[j].last_activity = sessions[i].last_activity]_vars

----------------------------------------------------------------------------
(* Deliveries of the Instagram webhook *)

WebhookNext ==
    \/ InstagramWebhook
    \/ Tick

WebhookSpec == Init /\ [][WebhookNext]_vars

\* C40: a webhook batch stores each inbound messaging event at most once and
\* with its own content: within a session no two inbound messages carry the
\* same channel_message_id, and an entry with several events does not store
\* its first event more than once.
C40_WebhookEventsStoredOnce ==
    [][ret'.op = "instagram_webhook"
       => \A a, b \in DOMAIN messages' \ DOMAIN messages :
             (/\ a # b
              /\ messages'[a].direction = "inbound"
              /\ messages'[b].direction = "inbound"
              /\ messages'[a].session_id = messages'[b].session_id
              /\ messages'[a].channel_message_id # None)
             => messages'[a].channel_message_id # messages'[b].channel_message_id]_vars

====
